---- MODULE Spec2Model ----
(***************************************************************************)
(* Auto-moderation pipeline of the Moderation cog (bot/cogs/moderation.py): *)
(* the on_message listener, the word filter, the spam tracker               *)
(* (_MessageRecord keyed by (guild id, author id)) and the side effects of  *)
(* a spam action.  Every on_message call is a task of its own: it runs      *)
(* without interruption up to its first awaited Discord call, and tasks     *)
(* interleave at those awaits.                                              *)
(*                                                                         *)
(* Further sections model _parse_duration, the /kick, /ban, /mute and /warn *)
(* commands, the Tickets cog with the tickets table (bot/cogs/tickets.py,   *)
(* bot/utils/database.py) and the Welcome cog with data/config.json         *)
(* (bot/cogs/welcome.py).  Each has a specification of its own, under which *)
(* the state of the other sections stays as it was initially.               *)
(***************************************************************************)
EXTENDS Integers, Sequences, FiniteSets, TLC

\* ------------------------------------------------------------------ bounds

\* time.monotonic() is read as an integer tick in 0..MaxTime
MaxTime == 2
\* (content, timestamp) pairs recorded and not yet reset, all keys together
MaxEntries == 3

\* ------------------------------------------------------- program constants

\* purge(limit=threshold + 5)
PurgeExtra == 5
\* timeout(timedelta(minutes=5))
TimeoutMinutes == 5
\* warn_msg.delete(delay=5)
NoticeDelay == 5

\* ------------------------------------------------------------ input domains

Guilds == {1, 2}
Authors == {1, 2}
\* author 1 is a member of both guilds, author 2 of guild 1
Members == {<<1, 1>>, <<1, 2>>, <<2, 1>>}
\* message.guild is None: a direct message
NoGuild == 0

PermNames == {"manage_messages", "kick_members", "ban_members"}

\* message contents, as sequences of characters
Hi == <<"h", "i">>
HiUpper == <<"H", "i">>
Bad == <<"o", "B", "a", "D">>
Contents == {Hi, HiUpper, Bad}

\* config.json: spam_threshold, spam_interval, word_filter
Configs ==
    { [spam_threshold |-> 2, spam_interval |-> 1, word_filter |-> << >>],
      [spam_threshold |-> 3, spam_interval |-> 2, word_filter |-> << >>],
      [spam_threshold |-> 2, spam_interval |-> 2,
       word_filter |-> << <<"A", "d">>, <<"b", "a">> >>],
      [spam_threshold |-> 3, spam_interval |-> 1,
       word_filter |-> << <<"z">>, <<"B", "A", "D">> >>] }

\* outcome of an awaited Discord call: it returns, raises discord.Forbidden,
\* or raises another discord.HTTPException (NotFound, a 5xx, ...)
Results == {"ok", "Forbidden", "HTTPException"}

\* a member without moderation permissions writing in a guild: author 1
\* writes any content in guild 1; the other members write Hi
Ordinary ==
    {m \in [guild : Guilds, author : Authors, bot : {FALSE}, perms : {{}},
            content : Contents] :
        /\ <<m.guild, m.author>> \in Members
        /\ <<m.guild, m.author>> # <<1, 1>> => m.content = Hi}

\* author 1 as a bot, in a direct message, or holding one moderation permission
Exempted ==
    [guild : {1}, author : {1}, bot : {TRUE}, perms : {{}}, content : {Hi, Bad}]
    \cup [guild : {NoGuild}, author : {1}, bot : {FALSE}, perms : {{}}, content : {Hi, Bad}]
    \cup [guild : {1}, author : {1}, bot : {FALSE}, perms : {{p} : p \in PermNames},
          content : {Hi, Bad}]

Messages == Ordinary \cup Exempted

Keys == Guilds \X Authors
\* the names of the on_message tasks that can be suspended at the same time
Procs == {1, 2}

VARIABLES
    config,        \* Moderation._config, loaded once in __init__
    spam_tracker,  \* Moderation._spam_tracker: key -> _MessageRecord.messages
    clock,         \* the value time.monotonic() returns
    tasks,         \* the on_message tasks suspended at an await
    history,       \* per key: every (content, timestamp) recorded since its last reset
    last,          \* the on_message call that ran last: its message and its decision
    done,          \* the awaited call that completed last, and how its task went on
    rec,           \* one _MessageRecord on its own: its messages, and its last call
    parsed,        \* the _parse_duration call that ran last: its argument and its outcome
    cmd,           \* the /kick, /ban or /mute call that ran last, and the calls it made
    warnings,      \* the rows of the warnings table, in the order of their ids
    warns,         \* the /warn tasks: where each one stands, and what it counted
    tickets,       \* the rows of the tickets table, in the order of their ids
    channels,      \* the ticket channels: how many were created, which exist, which
                   \* hold a Close Ticket button
    openers,       \* the ticket-creation tasks: where each one stands, its calls
    closers,       \* the channels whose Close Ticket handler waits to delete them
    pressed,       \* the Close Ticket handler that ended last: its calls after close_ticket
    config_file,   \* data/config.json
    last_set,      \* per key: the name the last /setwelcome or /setautorole gave it
    seen,          \* the handler of the Welcome cog that ran last, and its calls
    checks,        \* the spam checks between taking the key and comparing the count
    role_menus,    \* the rows of the role_menus table, in the order of their ids
    menus,         \* how many role-menu messages were sent
    member_roles,  \* per user: the roles the member holds
    reactions      \* the reaction tasks: where each one stands, and what it read

\* the state of the auto-moderation pipeline
pipeline == <<config, spam_tracker, clock, tasks, history, last, done, rec>>
\* the state of the slash commands of the Moderation cog
moderating == <<parsed, cmd, warnings, warns>>
\* the state of the Tickets cog
ticketing == <<tickets, channels, openers, closers, pressed>>
\* the state of the Welcome cog
welcoming == <<config_file, last_set, seen>>
\* the state of the Roles cog
reacting == <<role_menus, menus, member_roles, reactions>>
cogs == <<moderating, ticketing, welcoming, checks, reacting>>

vars == <<pipeline, cogs>>

\* ------------------------------------------------------------------ str

\* str.lower() on one character of the model's alphabet
LowerChar(ch) ==
    CASE ch = "A" -> "a"
      [] ch = "B" -> "b"
      [] ch = "D" -> "d"
      [] ch = "H" -> "h"
      [] ch = "M" -> "m"
      [] ch = "S" -> "s"
      [] OTHER -> ch

\* str.lower()
Lower(s) == [i \in 1..Len(s) |-> LowerChar(s[i])]

\* ---------------------------------------------------------- _MessageRecord

\* _MessageRecord.add: append the (content, timestamp) pair
Add(messages, content, now) == Append(messages, [c |-> content, t |-> now])

\* a prune that drops nothing
PruneNothing(messages, cutoff) == messages

\* prune with `t > cutoff`: a pair stamped exactly cutoff is dropped
PruneStrict(messages, cutoff) == SelectSeq(messages, LAMBDA e : e.t > cutoff)

\* _MessageRecord.prune: keep, in order, the pairs with t >= cutoff
Prune(messages, cutoff) == SelectSeq(messages, LAMBDA e : e.t >= cutoff)

\* identical_count comparing the lowercase forms
IdenticalCountAnyCase(messages, content) ==
    Cardinality({i \in DOMAIN messages : Lower(messages[i].c) = Lower(content)})

\* _MessageRecord.identical_count: the pairs whose content == content
IdenticalCount(messages, content) ==
    Cardinality({i \in DOMAIN messages : messages[i].c = content})

\* self._spam_tracker[key] on the defaultdict: a missing key gets a new,
\* empty _MessageRecord
GetRecord(tracker, key) ==
    IF key \in DOMAIN tracker THEN tracker[key] ELSE << >>

\* the tracker after the record of key was rebound to messages
PutRecord(tracker, key, messages) ==
    [k \in DOMAIN tracker \cup {key} |-> IF k = key THEN messages ELSE tracker[k]]

\* a reset that leaves the record of key in place
DelRecordKeeps(tracker, key) == tracker

\* del self._spam_tracker[key], for a key that is present
DelRecord(tracker, key) ==
    [k \in DOMAIN tracker \ {key} |-> tracker[k]]

\* ------------------------------------------------------------- word filter

\* Python's `word in text` on strings: word occurs as a substring of text
Contains(word, text) ==
    \E i \in 0..(Len(text) - Len(word)) : SubSeq(text, i + 1, i + Len(word)) = word

\* a loop that keeps the last matching word instead of returning at the first
ScanFilterLast(word_filter, content_lower, i) ==
    LET hits == {j \in i..Len(word_filter) : Contains(Lower(word_filter[j]), content_lower)}
    IN  IF hits = {} THEN 0 ELSE CHOOSE j \in hits : \A h \in hits : h <= j

\* the for loop of on_message over word_filter from position i on: the
\* position of the first word whose lowercase form occurs in content_lower,
\* 0 when the loop ends without a match
RECURSIVE ScanFilter(_, _, _)
ScanFilter(word_filter, content_lower, i) ==
    IF i > Len(word_filter) THEN 0
    ELSE IF Contains(Lower(word_filter[i]), content_lower) THEN i
    ELSE ScanFilter(word_filter, content_lower, i + 1)

\* the word-filter block of on_message: `if word_filter:` then the loop
MatchedWord(word_filter, content) ==
    IF word_filter = << >> THEN 0
    ELSE ScanFilter(word_filter, Lower(content), 1)

\* --------------------------------------------------------------- on_message

\* the moderator check without ban_members
IsExemptNoBan(m) ==
    \/ m.bot
    \/ m.guild = NoGuild
    \/ "manage_messages" \in m.perms
    \/ "kick_members" \in m.perms

\* the two early returns of on_message: bots and DMs, then moderators
IsExempt(m) ==
    \/ m.bot
    \/ m.guild = NoGuild
    \/ "manage_messages" \in m.perms
    \/ "kick_members" \in m.perms
    \/ "ban_members" \in m.perms

\* a key that leaves the guild out
KeyOfAuthorOnly(m) == <<1, m.author>>

\* key = (message.guild.id, message.author.id)
KeyOf(m) == <<m.guild, m.author>>

\* the comparison that starts the spam action
SpamTriggered(count, threshold) == count >= threshold

\* whether the try/except around the awaited call `op` catches exception `res`:
\* message.delete, channel.purge and author.timeout are wrapped in
\* `except discord.Forbidden`; channel.send is not wrapped at all
Catches(op, res) ==
    /\ op \in {"delete", "purge", "timeout"}
    /\ res = "Forbidden"

IdleTask == [pc |-> "idle", guild |-> NoGuild, author |-> 0]

NoMessage == [guild |-> NoGuild, author |-> 0, bot |-> FALSE, perms |-> {}, content |-> << >>]

\* no on_message call is being looked at
NoDecision ==
    [msg |-> NoMessage, action |-> "none", word |-> << >>, count |-> 0, now |-> 0,
     before |-> << >>]

\* no completion is being looked at
NoOutcome ==
    [guild |-> NoGuild, author |-> 0, action |-> "none", op |-> "none", res |-> "none",
     arg |-> 0, who |-> 0, then |-> << >>, raised |-> "none", ended |-> FALSE]

\* the event loop runs one piece of one task at a time: between two awaits
\* nothing else runs.  Quiet: the piece that ran last has been left.
Quiet == last = NoDecision /\ done = NoOutcome

\* the discord.py dispatcher gives each event a task; the lowest free name is its
FreeSlot(p) ==
    /\ tasks[p].pc = "idle"
    /\ \A q \in Procs : q < p => tasks[q].pc # "idle"

\* no task is suspended: every on_message call so far has run to its end
AllIdle == \A p \in Procs : tasks[p].pc = "idle"

RECURSIVE SumLen(_, _)
SumLen(f, S) ==
    IF S = {} THEN 0
    ELSE LET k == CHOOSE x \in S : TRUE IN Len(f[k]) + SumLen(f, S \ {k})

TotalEntries == SumLen(history, Keys)

\* the outcomes of a _parse_duration call: a timedelta (normalised to days and
\* seconds, as timedelta stores it), None, or an exception
None == [kind |-> "None", days |-> 0, seconds |-> 0]
Raises(exception) == [kind |-> exception, days |-> 0, seconds |-> 0]

\* before the first call of _parse_duration
NotParsed == [called |-> FALSE, raw |-> << >>, result |-> None]

\* before the first /kick, /ban or /mute
NoCommand ==
    [name |-> "none", me_top |-> 0, target_top |-> 0, duration |-> << >>,
     calls |-> << >>, raised |-> "none"]

\* no /warn is running in the slot
IdleWarn == [pc |-> "idle", guild |-> 0, user |-> 0, previous |-> 0, total |-> 0]

\* no ticket creation is running in the slot
IdleOpener ==
    [pc |-> "idle", guild |-> 0, user |-> 0, channel |-> 0, calls |-> << >>,
     raised |-> "none"]

\* no Close Ticket handler has just ended
NoPress == [channel |-> 0, calls |-> << >>, raised |-> "none"]

\* no /setwelcome and no /setautorole since config.json was last edited
NothingSet == [welcome_channel |-> "<unset>", auto_role |-> "<unset>"]

\* before the first handler of the Welcome cog
NoHandler ==
    [handler |-> "none", value |-> "", before |-> << >>, channels |-> {},
     roles |-> {}, calls |-> << >>, raised |-> "none"]

\* no reaction is being handled in the slot
NoReaction ==
    [pc |-> "idle",
     payload |-> [user |-> 0, guild |-> NoGuild, message |-> 0,
                  emoji |-> [name |-> << >>, id |-> "none", animated |-> FALSE],
                  add |-> FALSE, member |-> FALSE],
     mappings |-> << >>, role_id |-> 0, changed |-> FALSE]

\* no spam check is between its first statement and its comparison
IdleCheck == [pc |-> "idle", msg |-> NoMessage, now |-> 0, before |-> << >>]

\* _MessageRecord.__init__: no messages
NewRecord == [messages |-> << >>, op |-> "init", before |-> << >>, cutoff |-> 0]

Init ==
    /\ rec = NewRecord
    /\ config \in Configs
    /\ spam_tracker = << >>
    /\ clock = 0
    /\ tasks = [p \in Procs |-> IdleTask]
    /\ history = [k \in Keys |-> << >>]
    /\ last = NoDecision
    /\ done = NoOutcome
    /\ parsed = NotParsed
    /\ cmd = NoCommand
    /\ warnings = << >>
    /\ warns = [p \in Procs |-> IdleWarn]
    /\ tickets = << >>
    /\ channels = [created |-> 0, live |-> {}, views |-> {}]
    /\ openers = [p \in Procs |-> IdleOpener]
    /\ closers = {}
    /\ pressed = NoPress
    /\ config_file = << >>
    /\ last_set = NothingSet
    /\ seen = NoHandler
    /\ checks = [p \in Procs |-> IdleCheck]
    /\ role_menus = << >>
    /\ menus = 0
    /\ member_roles = [u \in {1, 2} |-> {}]
    /\ reactions = [p \in Procs |-> NoReaction]

\* time passes between two reads of time.monotonic()
Tick ==
    /\ Quiet
    /\ clock < MaxTime
    /\ clock' = clock + 1
    /\ UNCHANGED <<cogs, rec, config, spam_tracker, tasks, history, last, done>>

\* control is back in the event loop, which picks the next piece to run
Yield ==
    /\ ~Quiet
    /\ last' = NoDecision
    /\ done' = NoOutcome
    /\ UNCHANGED <<cogs, rec, config, spam_tracker, clock, tasks, history>>

\* on_message returned without awaiting anything
Returned(m, action) ==
    [guild |-> m.guild, author |-> m.author, action |-> action, op |-> "none",
     res |-> "none", arg |-> 0, who |-> 0, then |-> << >>, raised |-> "none",
     ended |-> TRUE]

\* on_message for a bot, a direct message or a moderator: return at once
OnMessageExempt(p, m) ==
    /\ Quiet
    /\ FreeSlot(p)
    /\ IsExempt(m)
    /\ last' = [msg |-> m, action |-> "None", word |-> << >>, count |-> 0,
                now |-> clock, before |-> spam_tracker]
    /\ done' = Returned(m, "None")
    /\ UNCHANGED <<cogs, rec, config, spam_tracker, clock, tasks, history>>

\* on_message without the `return` after _handle_word_filter: the message is
\* also pruned against and recorded by the spam check
OnMessageFilteredFallsThrough(p, m) ==
    /\ Quiet
    /\ FreeSlot(p)
    /\ ~IsExempt(m)
    /\ MatchedWord(config.word_filter, m.content) # 0
    /\ last' = [msg |-> m, action |-> "WordFilter",
                word |-> config.word_filter[MatchedWord(config.word_filter, m.content)],
                count |-> 0, now |-> clock, before |-> spam_tracker]
    /\ tasks' = [tasks EXCEPT ![p] = [pc |-> "wf_delete", guild |-> m.guild,
                                      author |-> m.author]]
    /\ spam_tracker' =
          PutRecord(spam_tracker, KeyOf(m),
                    Add(Prune(GetRecord(spam_tracker, KeyOf(m)), clock - config.spam_interval),
                        m.content, clock))
    /\ UNCHANGED <<cogs, rec, config, clock, history, done>>

\* on_message when a filter word matches: _handle_word_filter runs up to
\* `await message.delete()`
OnMessageFiltered(p, m) ==
    /\ Quiet
    /\ FreeSlot(p)
    /\ ~IsExempt(m)
    /\ MatchedWord(config.word_filter, m.content) # 0
    /\ last' = [msg |-> m, action |-> "WordFilter",
                word |-> config.word_filter[MatchedWord(config.word_filter, m.content)],
                count |-> 0, now |-> clock, before |-> spam_tracker]
    /\ tasks' = [tasks EXCEPT ![p] = [pc |-> "wf_delete", guild |-> m.guild,
                                      author |-> m.author]]
    /\ UNCHANGED <<cogs, rec, config, spam_tracker, clock, history, done>>

\* on_message when no filter word matches: _handle_spam_detection prunes,
\* records and counts, and on count >= threshold runs up to `await purge(...)`
OnMessageSpamCheck(p, m) ==
    /\ Quiet
    /\ FreeSlot(p)
    /\ ~IsExempt(m)
    /\ MatchedWord(config.word_filter, m.content) = 0
    /\ TotalEntries < MaxEntries
    /\ LET key == KeyOf(m)
           now == clock
           record == Add(Prune(GetRecord(spam_tracker, key), now - config.spam_interval),
                         m.content, now)
           count == IdenticalCount(record, m.content)
           hist == Append(history[key], [c |-> m.content, t |-> now])
           fires == SpamTriggered(count, config.spam_threshold)
       IN  /\ spam_tracker' = PutRecord(spam_tracker, key, record)
           /\ history' = [history EXCEPT ![key] = hist]
           /\ last' = [msg |-> m, action |-> IF fires THEN "Spam" ELSE "None",
                       word |-> << >>, count |-> count, now |-> now,
                       before |-> spam_tracker]
           /\ IF fires
              THEN /\ tasks' = [tasks EXCEPT ![p] = [pc |-> "purge", guild |-> m.guild,
                                                     author |-> m.author]]
                   /\ UNCHANGED done
              ELSE /\ done' = Returned(m, "None")
                   /\ UNCHANGED tasks
    /\ UNCHANGED <<cogs, rec, config, clock>>

\* --------------------------------------------- the awaited calls' completions

\* what the task p did when its awaited call `op` completed with `res`: the
\* calls it made next (then), and the exception that left on_message (raised)
Outcome(p, action, op, res, arg, who, then, raised) ==
    [guild |-> tasks[p].guild, author |-> tasks[p].author, action |-> action, op |-> op,
     res |-> res, arg |-> arg, who |-> who, then |-> then, raised |-> raised,
     ended |-> tasks'[p].pc = "idle"]

\* the task p ends: on_message returns or raises
Ends(p) == tasks' = [tasks EXCEPT ![p] = IdleTask]

\* a handler that goes from the purge to the notice, without the timeout
AwaitsButTimeout(p, pc) ==
    tasks' = [tasks EXCEPT ![p].pc = IF pc = "timeout" THEN "send" ELSE pc]

\* the task p is suspended at its next await
Awaits(p, pc) == tasks' = [tasks EXCEPT ![p].pc = pc]

\* _handle_word_filter: `await message.delete()` completes with r.  Forbidden
\* is logged and the handler returns; another exception leaves the handler;
\* on success the handler goes on to `await message.channel.send(...)`
WordFilterDelete(p, r) ==
    /\ Quiet
    /\ tasks[p].pc = "wf_delete"
    /\ IF r = "ok"
       THEN /\ Awaits(p, "wf_send")
            /\ done' = Outcome(p, "WordFilter", "delete", r, 0, 0, <<"send">>, "none")
       ELSE /\ Ends(p)
            /\ done' = Outcome(p, "WordFilter", "delete", r, 0, 0, << >>,
                               IF Catches("delete", r) THEN "none" ELSE r)
    /\ UNCHANGED <<cogs, rec, config, spam_tracker, clock, history, last>>

\* _handle_word_filter: `await message.channel.send(...)` completes with r; on
\* success warn_msg.delete(delay=5) schedules the removal and returns
WordFilterNotice(p, r) ==
    /\ Quiet
    /\ tasks[p].pc = "wf_send"
    /\ Ends(p)
    /\ IF r = "ok"
       THEN done' = Outcome(p, "WordFilter", "send", r, NoticeDelay, 0,
                            <<"delete_later">>, "none")
       ELSE done' = Outcome(p, "WordFilter", "send", r, 0, 0, << >>,
                            IF Catches("send", r) THEN "none" ELSE r)
    /\ UNCHANGED <<cogs, rec, config, spam_tracker, clock, history, last>>

\* _handle_spam_detection: `await message.channel.purge(limit=threshold + 5,
\* check=author)` completes with r; Forbidden is passed over and the handler
\* goes on to `await message.author.timeout(...)`
SpamPurge(p, r) ==
    /\ Quiet
    /\ tasks[p].pc = "purge"
    /\ IF r = "ok" \/ Catches("purge", r)
       THEN /\ Awaits(p, "timeout")
            /\ done' = Outcome(p, "Spam", "purge", r, config.spam_threshold + PurgeExtra,
                               tasks[p].author, <<"timeout">>, "none")
       ELSE /\ Ends(p)
            /\ done' = Outcome(p, "Spam", "purge", r, config.spam_threshold + PurgeExtra,
                               tasks[p].author, << >>, r)
    /\ UNCHANGED <<cogs, rec, config, spam_tracker, clock, history, last>>

\* _handle_spam_detection: `await message.author.timeout(timedelta(minutes=5))`
\* completes with r; Forbidden is logged and the handler goes on to
\* `await message.channel.send(...)`
SpamTimeout(p, r) ==
    /\ Quiet
    /\ tasks[p].pc = "timeout"
    /\ IF r = "ok" \/ Catches("timeout", r)
       THEN /\ Awaits(p, "send")
            /\ done' = Outcome(p, "Spam", "timeout", r, TimeoutMinutes, tasks[p].author,
                               <<"send">>, "none")
       ELSE /\ Ends(p)
            /\ done' = Outcome(p, "Spam", "timeout", r, TimeoutMinutes, tasks[p].author,
                               << >>, r)
    /\ UNCHANGED <<cogs, rec, config, spam_tracker, clock, history, last>>

\* _handle_spam_detection: `await message.channel.send(...)` completes with r;
\* on success warn_msg.delete(delay=5) schedules the removal and
\* `del self._spam_tracker[key]` runs, which raises KeyError for a missing key
SpamNotice(p, r) ==
    /\ Quiet
    /\ tasks[p].pc = "send"
    /\ Ends(p)
    /\ LET key == <<tasks[p].guild, tasks[p].author>>
       IN  IF r = "ok"
           THEN IF key \in DOMAIN spam_tracker
                THEN /\ spam_tracker' = DelRecord(spam_tracker, key)
                     /\ history' = [history EXCEPT ![key] = << >>]
                     /\ done' = Outcome(p, "Spam", "send", r, NoticeDelay, 0,
                                        <<"delete_later", "reset">>, "none")
                ELSE /\ done' = Outcome(p, "Spam", "send", r, NoticeDelay, 0,
                                        <<"delete_later", "reset">>, "KeyError")
                     /\ UNCHANGED <<spam_tracker, history>>
           ELSE /\ done' = Outcome(p, "Spam", "send", r, 0, 0, << >>,
                                   IF Catches("send", r) THEN "none" ELSE r)
                /\ UNCHANGED <<spam_tracker, history>>
    /\ UNCHANGED <<cogs, rec, config, clock, last>>

\* the completion of an awaited call of task p
Completion(p) ==
    \E r \in Results :
        \/ WordFilterDelete(p, r)
        \/ WordFilterNotice(p, r)
        \/ SpamPurge(p, r)
        \/ SpamTimeout(p, r)
        \/ SpamNotice(p, r)

\* one message event at a time, each handled to its end before the next is
\* delivered (a single gateway connection whose events do not overlap)
Next ==
    \/ Tick
    \/ Yield
    \/ \E p \in Procs, m \in Messages : AllIdle /\ OnMessageExempt(p, m)
    \/ \E p \in Procs, m \in Messages : AllIdle /\ OnMessageFiltered(p, m)
    \/ \E p \in Procs, m \in Messages : AllIdle /\ OnMessageSpamCheck(p, m)
    \/ \E p \in Procs : Completion(p)

Spec == Init /\ [][Next]_vars

\* --------------------------------------------- overlapping on_message tasks

\* messages of one burst: the members of guild 1 writing Hi
Burst == {m \in Ordinary : m.guild = 1 /\ m.content = Hi}

\* the completion of an awaited call of _handle_spam_detection in task p
SpamCompletion(p) ==
    \E r \in Results :
        \/ SpamPurge(p, r)
        \/ SpamTimeout(p, r)
        \/ SpamNotice(p, r)

\* a message event is delivered while the tasks of earlier ones are suspended
\* at an await: discord.py runs every dispatched event as a task of its own
ConcurrentNext ==
    \/ Tick
    \/ Yield
    \/ \E p \in Procs, m \in Burst : OnMessageSpamCheck(p, m)
    \/ \E p \in Procs : SpamCompletion(p)

ConcurrentSpec == Init /\ [][ConcurrentNext]_vars

\* ------------------------------------ the spam check, statement by statement

\* a spam check with an await between record.add and the comparison
HoldsLoopToAdd(pc) == pc \in {"keyed", "pruned"}

\* the positions of _handle_spam_detection after `record = self._spam_tracker[key]`,
\* after record.prune and after record.add: no await stands between `key = ...`
\* and the comparison, so a task at one of them keeps the event loop
HoldsLoop(pc) == pc \in {"keyed", "pruned", "recorded"}

\* the event loop can run another task: none is inside such a piece
LoopFree == \A q \in Procs : ~HoldsLoop(checks[q].pc)

\* key = (guild id, author id); now = time.monotonic();
\* record = self._spam_tracker[key], which creates the record of a missing key
CheckKey(p, m) ==
    /\ Quiet
    /\ LoopFree
    /\ tasks[p].pc = "idle" /\ checks[p].pc = "idle"
    /\ ~IsExempt(m)
    /\ MatchedWord(config.word_filter, m.content) = 0
    /\ TotalEntries < MaxEntries
    /\ checks' = [checks EXCEPT ![p] = [pc |-> "keyed", msg |-> m, now |-> clock,
                                        before |-> spam_tracker]]
    /\ spam_tracker' = PutRecord(spam_tracker, KeyOf(m), GetRecord(spam_tracker, KeyOf(m)))
    /\ UNCHANGED <<moderating, ticketing, welcoming, reacting, rec, config, clock, tasks, history,
                   last, done>>

\* record.prune(now - interval)
CheckPrune(p) ==
    /\ checks[p].pc = "keyed"
    /\ LET key == KeyOf(checks[p].msg)
       IN  spam_tracker' =
              PutRecord(spam_tracker, key,
                        Prune(GetRecord(spam_tracker, key),
                              checks[p].now - config.spam_interval))
    /\ checks' = [checks EXCEPT ![p].pc = "pruned"]
    /\ UNCHANGED <<moderating, ticketing, welcoming, reacting, rec, config, clock, tasks, history,
                   last, done>>

\* record.add(message.content, now)
CheckAdd(p) ==
    /\ checks[p].pc = "pruned"
    /\ LET key == KeyOf(checks[p].msg)
       IN  /\ spam_tracker' =
                 PutRecord(spam_tracker, key,
                           Add(GetRecord(spam_tracker, key), checks[p].msg.content,
                               checks[p].now))
           /\ history' = [history EXCEPT
                 ![key] = Append(@, [c |-> checks[p].msg.content, t |-> checks[p].now])]
    /\ checks' = [checks EXCEPT ![p].pc = "recorded"]
    /\ UNCHANGED <<moderating, ticketing, welcoming, reacting, rec, config, clock, tasks, last, done>>

\* `if record.identical_count(message.content) >= threshold:` and, when it
\* holds, the handler up to `await message.channel.purge(...)`
CheckCount(p) ==
    /\ checks[p].pc = "recorded"
    /\ LET m == checks[p].msg
           count == IdenticalCount(GetRecord(spam_tracker, KeyOf(m)), m.content)
           fires == SpamTriggered(count, config.spam_threshold)
       IN  /\ last' = [msg |-> m, action |-> IF fires THEN "Spam" ELSE "None",
                       word |-> << >>, count |-> count, now |-> checks[p].now,
                       before |-> checks[p].before]
           /\ IF fires
              THEN /\ tasks' = [tasks EXCEPT ![p] = [pc |-> "purge", guild |-> m.guild,
                                                     author |-> m.author]]
                   /\ UNCHANGED done
              ELSE /\ done' = Returned(m, "None")
                   /\ UNCHANGED tasks
    /\ checks' = [checks EXCEPT ![p] = IdleCheck]
    /\ UNCHANGED <<moderating, ticketing, welcoming, reacting, rec, config, spam_tracker, clock,
                   history>>

\* message events delivered at any time, their tasks run by one event loop
\* that changes task at an await only
SteppedNext ==
    \/ Tick
    \/ Yield
    \/ \E p \in Procs, m \in Burst : CheckKey(p, m)
    \/ \E p \in Procs : CheckPrune(p)
    \/ \E p \in Procs : CheckAdd(p)
    \/ \E p \in Procs : CheckCount(p)
    \/ \E p \in Procs : LoopFree /\ SpamCompletion(p)

SteppedSpec == Init /\ [][SteppedNext]_vars

\* ------------------------------------------- a _MessageRecord on its own

\* the timestamp of the newest pair, 0 for a record that never held one
Newest(messages) == IF messages = << >> THEN 0 ELSE messages[Len(messages)].t

\* record.add(content, now), the clock never running backwards
RecordAdd(content, now) ==
    /\ Len(rec.messages) < MaxEntries
    /\ now >= Newest(rec.messages)
    /\ rec' = [messages |-> Add(rec.messages, content, now), op |-> "add",
               before |-> rec.messages, cutoff |-> 0]
    /\ UNCHANGED <<cogs, config, spam_tracker, clock, tasks, history, last, done>>

\* record.prune(cutoff)
RecordPrune(cutoff) ==
    /\ rec' = [messages |-> Prune(rec.messages, cutoff), op |-> "prune",
               before |-> rec.messages, cutoff |-> cutoff]
    /\ UNCHANGED <<cogs, config, spam_tracker, clock, tasks, history, last, done>>

RecordNext ==
    \/ \E content \in Contents, now \in 0..MaxTime : RecordAdd(content, now)
    \/ \E cutoff \in -1..(MaxTime + 1) : RecordPrune(cutoff)

RecordSpec == Init /\ [][RecordNext]_vars

\* ======================================================== _parse_duration

\* the longest duration string drawn character by character
MaxDurationLen == 3

\* the characters the regular expression's \d matches
Digits == {"0", "1", "2", "3", "4", "5", "6", "7", "8", "9"}
\* "U+017F" is the one character LATIN SMALL LETTER LONG S
DurationAlphabet == {"0", "3", "m", "H", "x", " ", "-", "U+017F"}

\* every string over alphabet of length n
RECURSIVE StringsOfLen(_, _)
StringsOfLen(alphabet, n) ==
    IF n = 0 THEN {<< >>}
    ELSE {Append(s, ch) : s \in StringsOfLen(alphabet, n - 1), ch \in alphabet}

\* duration strings around 0, 28 days and the largest timedelta
BoundaryDurations ==
    { <<"0", "s">>, <<"1", "0", "m">>, <<"1", "0", " ", "M">>,
      <<" ", "5", "d", " ">>, <<"1", "h", "s">>, <<"1", " ", "0", "m">>,
      <<"2", "8", "d">>, <<"2", "8", "D">>, <<"2", "9", "d">>,
      <<"6", "7", "2", "h">>, <<"6", "7", "3", "h">>,
      <<"4", "0", "3", "2", "0", "m">>, <<"4", "0", "3", "2", "1", "m">>,
      <<"2", "4", "1", "9", "2", "0", "0", "s">>,
      <<"2", "4", "1", "9", "2", "0", "1", "S">>,
      <<"9", "9", "9", "9", "9", "9", "9", "9", "9", "d">>,
      <<"1", "0", "0", "0", "0", "0", "0", "0", "0", "0", "d">>,
      <<"1", "0", "0", "0", "0", "0", "0", "0", "0", "0", "h">>,
      <<"1", "0", "U+017F">> }

Durations ==
    BoundaryDurations
    \cup UNION {StringsOfLen(DurationAlphabet, n) : n \in 0..MaxDurationLen}

\* str.isspace() of one character, which is also the regular expression's \s
IsSpace(ch) == ch = " "

\* str.strip(): the string without its leading and trailing whitespace
Strip(s) ==
    LET kept == {i \in DOMAIN s : ~IsSpace(s[i])}
    IN  IF kept = {} THEN << >>
        ELSE SubSeq(s, CHOOSE i \in kept : \A j \in kept : i <= j,
                       CHOOSE i \in kept : \A j \in kept : j <= i)

\* int() of one decimal digit
DigitValue(ch) ==
    CASE ch = "0" -> 0 [] ch = "1" -> 1 [] ch = "2" -> 2 [] ch = "3" -> 3
      [] ch = "4" -> 4 [] ch = "5" -> 5 [] ch = "6" -> 6 [] ch = "7" -> 7
      [] ch = "8" -> 8 [] ch = "9" -> 9

\* int() of a string of decimal digits
RECURSIVE ParseInt(_)
ParseInt(digits) ==
    IF digits = << >> THEN 0
    ELSE ParseInt(SubSeq(digits, 1, Len(digits) - 1)) * 10
         + DigitValue(digits[Len(digits)])

\* _DURATION_UNITS: unit letter -> timedelta keyword
DURATION_UNITS ==
    [s |-> "seconds", m |-> "minutes", h |-> "hours", d |-> "days"]

\* the character class [smhd] under re.IGNORECASE: a character matches when
\* its lowercase or its uppercase form is one of the class's letters in
\* either case; the uppercase form of U+017F is "S"
UnitClass(ch) ==
    \/ LowerChar(ch) \in DOMAIN DURATION_UNITS
    \/ ch = "U+017F"

\* _DURATION_RE.match: ^(\d+)\s*([smhd])$ -- one or more digits, any
\* whitespace, one unit character, and then the end of the string
DurationMatch(s) ==
    LET n == Cardinality({i \in DOMAIN s : \A j \in 1..i : s[j] \in Digits})
    IN  IF /\ n >= 1
           /\ Len(s) >= n + 1
           /\ \A i \in (n + 1)..(Len(s) - 1) : IsSpace(s[i])
           /\ UnitClass(s[Len(s)])
        THEN [matched |-> TRUE, digits |-> SubSeq(s, 1, n), unit |-> s[Len(s)]]
        ELSE [matched |-> FALSE, digits |-> << >>, unit |-> ""]

\* timedelta(**{keyword: value}) for value >= 0: a day has 86400 seconds, and
\* more than 999999999 days (timedelta.max.days) is an OverflowError
Timedelta(keyword, value) ==
    LET unit == CASE keyword = "seconds" -> 1
                  [] keyword = "minutes" -> 60
                  [] keyword = "hours" -> 3600
                  [] keyword = "days" -> 86400
        perDay == 86400 \div unit
        days == value \div perDay
    IN  IF days > 999999999 THEN Raises("OverflowError")
        ELSE [kind |-> "timedelta", days |-> days,
              seconds |-> (value % perDay) * unit]

\* _parse_duration
ParseDuration(raw) ==
    LET match == DurationMatch(Strip(raw))
    IN  IF ~match.matched THEN None
        ELSE LET value == ParseInt(match.digits)
                 unit == LowerChar(match.unit)
             IN  IF unit \notin DOMAIN DURATION_UNITS THEN Raises("KeyError")
                 ELSE Timedelta(DURATION_UNITS[unit], value)

\* one call of _parse_duration
ParseDurationCall(raw) ==
    /\ parsed = NotParsed
    /\ parsed' = [called |-> TRUE, raw |-> raw, result |-> ParseDuration(raw)]
    /\ UNCHANGED <<pipeline, checks, reacting, ticketing, welcoming, cmd, warnings, warns>>

\* the call has returned, and the next one can be observed
ParseReturn ==
    /\ parsed # NotParsed
    /\ parsed' = NotParsed
    /\ UNCHANGED <<pipeline, checks, reacting, ticketing, welcoming, cmd, warnings, warns>>

ParseNext ==
    \/ ParseReturn
    \/ \E raw \in Durations : ParseDurationCall(raw)

ParseSpec == Init /\ [][ParseNext]_vars

\* ================================================== /kick, /ban and /mute

\* positions of a top role in the guild's role hierarchy
Positions == {1, 2, 3}

\* the duration argument of /mute
MuteDurations == BoundaryDurations \cup {<< >>, <<"x">>, <<"3", "m">>}

\* the mod-log channel does not exist, or the result of sending to it
LogResults == {"missing"} \cup Results

\* timedelta.__gt__
Longer(a, b) ==
    a.days > b.days \/ (a.days = b.days /\ a.seconds > b.seconds)

\* _MAX_TIMEOUT
MAX_TIMEOUT == Timedelta("days", 28)

\* the hierarchy check with >= in place of >
CanActionMemberOrEqual(me_top, target_top) == me_top >= target_top

\* _can_action_member: the bot's top role is above the target's
CanActionMember(me_top, target_top) == me_top > target_top

\* an awaited call: guarded is TRUE when the call stands in a try block whose
\* except clauses cover its exception
Call(op, arg, res, guarded) ==
    [op |-> op, arg |-> arg, res |-> res, ephemeral |-> FALSE,
     guarded |-> guarded]

\* interaction.response.send_message(embed=..., ephemeral=...)
Respond(title, ephemeral, res) ==
    [op |-> "respond", arg |-> title, res |-> res, ephemeral |-> ephemeral,
     guarded |-> FALSE]

\* _send_mod_log: nothing is sent when the channel is not found
SendModLog(action, log) ==
    IF log = "missing" THEN << >> ELSE <<Call("mod_log", action, log, FALSE)>>

\* the position of the first call of a handler's straight-line code that
\* raises outside a try block, or 0
FirstRaise(planned) ==
    LET raising == {i \in DOMAIN planned :
                        planned[i].res # "ok" /\ ~planned[i].guarded}
    IN  IF raising = {} THEN 0
        ELSE CHOOSE i \in raising : \A j \in raising : i <= j

\* the calls a handler makes of the ones its code lists: those up to the
\* first one that raises
Made(planned) ==
    IF FirstRaise(planned) = 0 THEN planned
    ELSE SubSeq(planned, 1, FirstRaise(planned))

\* the exception that leaves the handler, or "none"
Raised(planned) ==
    IF FirstRaise(planned) = 0 THEN "none"
    ELSE planned[FirstRaise(planned)].res

\* the record of one command call
Ran(name, me_top, target_top, duration, planned, raised) ==
    [name |-> name, me_top |-> me_top, target_top |-> target_top,
     duration |-> duration, calls |-> Made(planned),
     raised |-> IF raised # "none" THEN raised ELSE Raised(planned)]

\* a /kick that kicks first and sends the DM afterwards
KickThenDM(me_top, target_top, dm, act, log, resp) ==
    /\ cmd = NoCommand
    /\ cmd' = Ran("kick", me_top, target_top, << >>,
                  IF ~CanActionMember(me_top, target_top)
                  THEN <<Respond("Cannot Kick", TRUE, resp)>>
                  ELSE <<Call("kick", "", act, FALSE), Call("dm", "", dm, TRUE)>>
                       \o SendModLog("Member Kicked", log)
                       \o <<Respond("Member Kicked", FALSE, resp)>>,
                  "none")
    /\ UNCHANGED <<pipeline, checks, reacting, ticketing, welcoming, parsed, warnings, warns>>

\* Moderation.kick
Kick(me_top, target_top, dm, act, log, resp) ==
    /\ cmd = NoCommand
    /\ cmd' = Ran("kick", me_top, target_top, << >>,
                  IF ~CanActionMember(me_top, target_top)
                  THEN <<Respond("Cannot Kick", TRUE, resp)>>
                  ELSE <<Call("dm", "", dm, TRUE), Call("kick", "", act, FALSE)>>
                       \o SendModLog("Member Kicked", log)
                       \o <<Respond("Member Kicked", FALSE, resp)>>,
                  "none")
    /\ UNCHANGED <<pipeline, checks, reacting, ticketing, welcoming, parsed, warnings, warns>>

\* Moderation.ban
Ban(me_top, target_top, dm, act, log, resp) ==
    /\ cmd = NoCommand
    /\ cmd' = Ran("ban", me_top, target_top, << >>,
                  IF ~CanActionMember(me_top, target_top)
                  THEN <<Respond("Cannot Ban", TRUE, resp)>>
                  ELSE <<Call("dm", "", dm, TRUE), Call("ban", "", act, FALSE)>>
                       \o SendModLog("Member Banned", log)
                       \o <<Respond("Member Banned", FALSE, resp)>>,
                  "none")
    /\ UNCHANGED <<pipeline, checks, reacting, ticketing, welcoming, parsed, warnings, warns>>

\* Moderation.mute
Mute(me_top, target_top, duration, act, log, resp) ==
    /\ cmd = NoCommand
    /\ LET delta == ParseDuration(duration)
       IN  cmd' =
             IF ~CanActionMember(me_top, target_top)
             THEN Ran("mute", me_top, target_top, duration,
                      <<Respond("Cannot Mute", TRUE, resp)>>, "none")
             ELSE IF delta.kind \notin {"None", "timedelta"}
             THEN Ran("mute", me_top, target_top, duration, << >>, delta.kind)
             ELSE IF delta = None
             THEN Ran("mute", me_top, target_top, duration,
                      <<Respond("Invalid Duration", TRUE, resp)>>, "none")
             ELSE IF Longer(delta, MAX_TIMEOUT)
             THEN Ran("mute", me_top, target_top, duration,
                      <<Respond("Duration Too Long", TRUE, resp)>>, "none")
             ELSE Ran("mute", me_top, target_top, duration,
                      <<Call("timeout", delta, act, FALSE)>>
                      \o SendModLog("Member Muted", log)
                      \o <<Respond("Member Muted", FALSE, resp)>>,
                      "none")
    /\ UNCHANGED <<pipeline, checks, reacting, ticketing, welcoming, parsed, warnings, warns>>

\* the handler has returned, and the next command can be observed
CommandReturn ==
    /\ cmd # NoCommand
    /\ cmd' = NoCommand
    /\ UNCHANGED <<pipeline, checks, reacting, ticketing, welcoming, parsed, warnings, warns>>

CommandNext ==
    \/ CommandReturn
    \/ \E me_top \in Positions, target_top \in Positions, dm \in Results,
          act \in Results, log \in LogResults, resp \in Results :
          Kick(me_top, target_top, dm, act, log, resp)
    \/ \E me_top \in Positions, target_top \in Positions, dm \in Results,
          act \in Results, log \in LogResults, resp \in Results :
          Ban(me_top, target_top, dm, act, log, resp)
    \/ \E me_top \in Positions, target_top \in Positions,
          duration \in MuteDurations, act \in Results, log \in LogResults,
          resp \in Results :
          Mute(me_top, target_top, duration, act, log, resp)

CommandSpec == Init /\ [][CommandNext]_vars

\* ================================================================== /warn

\* rows of the warnings table
MaxWarnings == 3

\* the warnings table after add_warning: one more row, for (guild, user)
AddWarning(table, guild, user) ==
    Append(table, [guild_id |-> guild, user_id |-> user])

\* get_warnings: the rows of (guild, user), the newest first
GetWarnings(table, guild, user) ==
    LET rows == SelectSeq(table, LAMBDA w : w.guild_id = guild /\ w.user_id = user)
    IN  [i \in 1..Len(rows) |-> rows[Len(rows) + 1 - i]]

\* a COUNT(*) with WHERE user_id = ? only
GetWarningCountAnyGuild(table, guild, user) ==
    Cardinality({i \in DOMAIN table : table[i].user_id = user})

\* get_warning_count: COUNT(*) WHERE guild_id = ? AND user_id = ?
GetWarningCount(table, guild, user) ==
    Cardinality({i \in DOMAIN table :
                    table[i].guild_id = guild /\ table[i].user_id = user})

\* Moderation.warn up to the commit of add_warning: the row is inserted;
\* previous is the count of (guild, user) before the insert
WarnAddWarning(p, guild, user) ==
    /\ warns[p].pc = "idle"
    /\ Len(warnings) < MaxWarnings
    /\ warnings' = AddWarning(warnings, guild, user)
    /\ warns' = [warns EXCEPT ![p] =
                    [pc |-> "added", guild |-> guild, user |-> user,
                     previous |-> GetWarningCount(warnings, guild, user),
                     total |-> 0]]
    /\ UNCHANGED <<pipeline, checks, reacting, ticketing, welcoming, parsed, cmd>>

\* total = await get_warning_count(...)
WarnGetWarningCount(p) ==
    /\ warns[p].pc = "added"
    /\ warns' = [warns EXCEPT ![p].pc = "counted",
                              ![p].total = GetWarningCount(
                                  warnings, warns[p].guild, warns[p].user)]
    /\ UNCHANGED <<pipeline, checks, reacting, ticketing, welcoming, parsed, cmd, warnings>>

\* the rest of Moderation.warn: the DM (its failures are caught), the mod-log
\* entry (its failure leaves the handler) and the response with the total
WarnRespond(p, log) ==
    /\ warns[p].pc = "counted"
    /\ warns' = [warns EXCEPT ![p].pc =
                    IF log \in {"missing", "ok"} THEN "responded" ELSE "raised"]
    /\ UNCHANGED <<pipeline, checks, reacting, ticketing, welcoming, parsed, cmd, warnings>>

\* the handler has returned
WarnReturn(p) ==
    /\ warns[p].pc \in {"responded", "raised"}
    /\ warns' = [warns EXCEPT ![p] = IdleWarn]
    /\ UNCHANGED <<pipeline, checks, reacting, ticketing, welcoming, parsed, cmd, warnings>>

\* /warn handlers are tasks of their own and interleave at their awaits
WarnNext ==
    \/ \E p \in Procs, k \in Members : WarnAddWarning(p, k[1], k[2])
    \/ \E p \in Procs : WarnGetWarningCount(p)
    \/ \E p \in Procs, log \in LogResults : WarnRespond(p, log)
    \/ \E p \in Procs : WarnReturn(p)

WarnSpec == Init /\ [][WarnNext]_vars

\* ================================================================ tickets

\* ticket channels created, all guilds together
MaxTickets == 2

\* the outcome of get_open_ticket when no row matches
NoTicket == [guild_id |-> 0, user_id |-> 0, channel_id |-> 0, status |-> "none"]

\* create_ticket: one more row, with the default status 'open'
CreateTicket(table, guild, user, channel) ==
    Append(table, [guild_id |-> guild, user_id |-> user,
                   channel_id |-> channel, status |-> "open"])

\* an UPDATE that closes every ticket of the user who owns the channel's ticket
CloseTicketOfUser(table, channel) ==
    [i \in DOMAIN table |->
        IF \E j \in DOMAIN table : /\ table[j].channel_id = channel
                                   /\ table[j].user_id = table[i].user_id
        THEN [table[i] EXCEPT !.status = "closed"] ELSE table[i]]

\* close_ticket: UPDATE tickets SET status = 'closed' WHERE channel_id = ?
CloseTicket(table, channel) ==
    [i \in DOMAIN table |->
        IF table[i].channel_id = channel
        THEN [table[i] EXCEPT !.status = "closed"] ELSE table[i]]

\* a query that takes the oldest ticket of (guild, user) and then looks at
\* its status
GetOpenTicketOldest(table, guild, user) ==
    LET rows == SelectSeq(table, LAMBDA t :
                    t.guild_id = guild /\ t.user_id = user)
    IN  IF rows # << >> /\ rows[1].status = "open" THEN rows[1] ELSE NoTicket

\* get_open_ticket: the first row of (guild, user) with status 'open'
GetOpenTicket(table, guild, user) ==
    LET rows == SelectSeq(table, LAMBDA t :
                    t.guild_id = guild /\ t.user_id = user /\ t.status = "open")
    IN  IF rows = << >> THEN NoTicket ELSE rows[1]

\* no ticket handler has just ended: the calls of one that has are looked at
\* before anything else happens
NoneAnswered ==
    /\ \A q \in Procs : openers[q].pc # "answered"
    /\ pressed = NoPress

\* what a ticket task has done so far
Opener(pc, guild, user, channel, planned) ==
    [pc |-> pc, guild |-> guild, user |-> user, channel |-> channel,
     calls |-> Made(planned), raised |-> Raised(planned)]

\* _handle_ticket_creation up to create_text_channel: the open-ticket check
\* and the lookup of the ticket category
TicketCheck(p, guild, user, category) ==
    /\ NoneAnswered
    /\ openers[p].pc = "idle"
    /\ openers' = [openers EXCEPT ![p] =
         IF GetOpenTicket(tickets, guild, user) # NoTicket
         THEN Opener("answered", guild, user, 0,
                     <<Respond("Ticket Already Open", TRUE, "ok")>>)
         ELSE IF ~category
         THEN Opener("answered", guild, user, 0,
                     <<Respond("Configuration Error", TRUE, "ok")>>)
         ELSE Opener("creating", guild, user, 0, << >>)]
    /\ UNCHANGED <<pipeline, checks, reacting, moderating, welcoming, pressed, tickets, channels, closers>>

\* create_text_channel returns the new channel or raises
TicketCreateChannel(p, res) ==
    /\ NoneAnswered
    /\ openers[p].pc = "creating"
    /\ res = "ok" => channels.created < MaxTickets
    /\ LET t == openers[p]
           id == channels.created + 1
       IN  IF res = "ok"
           THEN /\ channels' = [channels EXCEPT !.created = id,
                                                !.live = @ \cup {id}]
                /\ openers' = [openers EXCEPT ![p] =
                       Opener("persisting", t.guild, t.user, id,
                              <<Call("create_text_channel", id, res, TRUE)>>)]
           ELSE /\ channels' = channels
                /\ openers' = [openers EXCEPT ![p] =
                       Opener("answered", t.guild, t.user, 0,
                              <<Call("create_text_channel", 0, res, TRUE),
                                Respond(IF res = "Forbidden"
                                        THEN "Permission Error"
                                        ELSE "Channel Creation Failed",
                                        TRUE, "ok")>>)]
    /\ UNCHANGED <<pipeline, checks, reacting, moderating, welcoming, pressed, tickets, closers>>

\* create_ticket, the message with the TicketControlView in the ticket
\* channel, and the confirmation
TicketPersist(p, send) ==
    /\ NoneAnswered
    /\ openers[p].pc = "persisting"
    /\ LET t == openers[p]
       IN  /\ tickets' = CreateTicket(tickets, t.guild, t.user, t.channel)
           /\ openers' = [openers EXCEPT ![p] =
                  Opener("answered", t.guild, t.user, t.channel,
                         t.calls \o <<Call("create_ticket", t.channel, "ok", TRUE),
                                      Call("send", t.channel, send, FALSE),
                                      Respond("Ticket Created", TRUE, "ok")>>)]
    /\ channels' = IF send = "ok"
                   THEN [channels EXCEPT !.views = @ \cup {openers[p].channel}]
                   ELSE channels
    /\ UNCHANGED <<pipeline, checks, reacting, moderating, welcoming, pressed, closers>>

\* the handler has returned
TicketReturn(p) ==
    /\ openers[p].pc = "answered"
    /\ openers' = [openers EXCEPT ![p] = IdleOpener]
    /\ UNCHANGED <<pipeline, checks, reacting, moderating, welcoming, pressed, tickets, channels, closers>>

\* a close_ticket_button whose channel.delete stands outside the try block
CloseStepsUncaught(channel, resp, res) ==
    <<Respond("Ticket Closing", FALSE, resp), Call("sleep", 5, "ok", TRUE),
      Call("delete", channel, res, FALSE)>>

\* close_ticket_button after close_ticket: the closing message,
\* asyncio.sleep(5), and channel.delete inside `try ... except discord.Forbidden
\* ... except discord.HTTPException`
CloseSteps(channel, resp, res) ==
    <<Respond("Ticket Closing", FALSE, resp), Call("sleep", 5, "ok", TRUE),
      Call("delete", channel, res, TRUE)>>

\* close_ticket_button up to the commit of close_ticket, pressed in a ticket
\* channel that exists and has received the TicketControlView
CloseButtonCloseTicket(channel) ==
    /\ NoneAnswered
    /\ channel \in channels.live \cap channels.views
    /\ tickets' = CloseTicket(tickets, channel)
    /\ closers' = closers \cup {channel}
    /\ UNCHANGED <<pipeline, checks, reacting, moderating, welcoming, pressed, channels, openers>>

\* the rest of close_ticket_button: the response, asyncio.sleep(5) and the
\* deletion of the channel, whose failures are caught
CloseButtonDelete(channel, resp, res) ==
    /\ NoneAnswered
    /\ channel \in closers
    /\ closers' = closers \ {channel}
    /\ pressed' = [channel |-> channel, calls |-> Made(CloseSteps(channel, resp, res)),
                   raised |-> Raised(CloseSteps(channel, resp, res))]
    /\ channels' = IF resp = "ok" /\ res = "ok"
                   THEN [channels EXCEPT !.live = @ \ {channel}]
                   ELSE channels
    /\ UNCHANGED <<pipeline, checks, reacting, moderating, welcoming, tickets, openers>>

\* the Close Ticket handler has ended
CloseButtonReturn ==
    /\ pressed # NoPress
    /\ pressed' = NoPress
    /\ UNCHANGED <<pipeline, checks, reacting, moderating, welcoming, tickets, channels, openers,
                   closers>>

\* ticket handlers are tasks of their own and interleave at their awaits
TicketNext ==
    \/ \E p \in Procs, k \in Members, category \in BOOLEAN :
          TicketCheck(p, k[1], k[2], category)
    \/ \E p \in Procs, res \in Results : TicketCreateChannel(p, res)
    \/ \E p \in Procs, send \in Results : TicketPersist(p, send)
    \/ \E p \in Procs : TicketReturn(p)
    \/ \E channel \in 1..MaxTickets : CloseButtonCloseTicket(channel)
    \/ \E channel \in 1..MaxTickets, resp \in Results, res \in Results :
          CloseButtonDelete(channel, resp, res)
    \/ CloseButtonReturn

\* the cogs other than Moderation do not read Moderation._config: one of
\* its values is enough
CogInit == Init /\ config.spam_interval = 1 /\ config.word_filter = << >>

TicketSpec == CogInit /\ [][TicketNext]_vars

\* ================================================================ welcome

ChannelNames == {"general", "lobby", "welcome"}
RoleNames == {"Member", "VIP"}

\* data/config.json as the members of its object, in the order of the text
ConfigFiles ==
    { << >>,
      << <<"welcome_channel", "welcome">>, <<"auto_role", "">>,
         <<"mod_log_channel", "mod-log">> >>,
      << <<"auto_role", "Member">>, <<"welcome_channel", "general">> >>,
      << <<"mod_log_channel", "mod-log">>, <<"auto_role", "Ghost">> >>,
      << <<"auto_role", "VIP">>, <<"ticket_category", "Support">>,
         <<"auto_role", "Member">> >> }

\* json.load: a dict in the order of the members; of two members with the
\* same key the later value is kept, at the place of the first
LoadConfig(file) ==
    LET first == {i \in DOMAIN file : \A j \in 1..(i - 1) : file[j][1] # file[i][1]}
        rank(i) == Cardinality({j \in first : j <= i})
        at(n) == CHOOSE i \in first : rank(i) = n
        latest(k) == CHOOSE i \in DOMAIN file :
                        /\ file[i][1] = k
                        /\ \A j \in DOMAIN file : file[j][1] = k => j <= i
    IN  [n \in 1..Cardinality(first) |->
            <<file[at(n)][1], file[latest(file[at(n)][1])][2]>>]

\* dict.get(key, default)
Get(cfg, key, default) ==
    IF \E i \in DOMAIN cfg : cfg[i][1] = key
    THEN cfg[CHOOSE i \in DOMAIN cfg : cfg[i][1] = key][2]
    ELSE default

\* an assignment that starts from an empty dict
SetItemAlone(cfg, key, value) == << <<key, value>> >>

\* cfg[key] = value: the value of an existing key is replaced in place, a new
\* key goes to the end
SetItem(cfg, key, value) ==
    IF \E i \in DOMAIN cfg : cfg[i][1] = key
    THEN [i \in DOMAIN cfg |-> IF cfg[i][1] = key THEN <<key, value>> ELSE cfg[i]]
    ELSE Append(cfg, <<key, value>>)

\* an except clause that lets discord.Forbidden pass
WelcomeCatchesNothing(res) == FALSE

\* except discord.Forbidden around the welcome channel.send
WelcomeCatches(res) == res = "Forbidden"

\* the record of one handler of the Welcome cog
Welcomed(handler, value, names, roles, planned) ==
    [handler |-> handler, value |-> value, before |-> config_file,
     channels |-> names, roles |-> roles, calls |-> Made(planned),
     raised |-> Raised(planned)]

\* config.json is edited by hand
EditConfig(file) ==
    /\ seen = NoHandler
    /\ config_file' = file
    /\ last_set' = NothingSet
    /\ UNCHANGED <<pipeline, checks, reacting, moderating, ticketing, seen>>

\* Welcome.setwelcome and Welcome.setautorole: _load_config, cfg[key] = name,
\* _save_config (json.dump writes the dict member by member), the response
SetConfig(handler, key, name, resp) ==
    /\ seen = NoHandler
    /\ config_file' = SetItem(LoadConfig(config_file), key, name)
    /\ last_set' = [last_set EXCEPT ![key] = name]
    /\ seen' = Welcomed(handler, name, {}, {},
                        <<Respond(IF handler = "setwelcome"
                                  THEN "Welcome Channel Updated"
                                  ELSE "Auto-Role Updated", FALSE, resp)>>)
    /\ UNCHANGED <<pipeline, checks, reacting, moderating, ticketing>>

\* Welcome.on_member_join in a guild with the text channels names and the
\* roles roles
OnMemberJoin(names, roles, send, add) ==
    /\ seen = NoHandler
    /\ LET cfg == LoadConfig(config_file)
           channel == Get(cfg, "welcome_channel", "welcome")
           role == Get(cfg, "auto_role", "")
       IN  seen' = Welcomed("on_member_join", "", names, roles,
                     (IF channel \in names
                      THEN <<Call("send", channel, send,
                                  send = "ok" \/ WelcomeCatches(send))>>
                      ELSE << >>)
                     \o (IF role = "" \/ role \notin roles THEN << >>
                         ELSE <<Call("add_roles", role, add, TRUE)>>))
    /\ UNCHANGED <<pipeline, checks, reacting, moderating, ticketing, config_file, last_set>>

\* the handler has returned
WelcomeReturn ==
    /\ seen # NoHandler
    /\ seen' = NoHandler
    /\ UNCHANGED <<pipeline, checks, reacting, moderating, ticketing, config_file, last_set>>

WelcomeNext ==
    \/ \E file \in ConfigFiles : EditConfig(file)
    \/ \E name \in ChannelNames, resp \in Results :
          SetConfig("setwelcome", "welcome_channel", name, resp)
    \/ \E name \in RoleNames, resp \in Results :
          SetConfig("setautorole", "auto_role", name, resp)
    \/ \E names \in SUBSET ChannelNames, roles \in SUBSET RoleNames,
          send \in Results, add \in Results :
          OnMemberJoin(names, roles, send, add)
    \/ WelcomeReturn

WelcomeSpec == CogInit /\ [][WelcomeNext]_vars

\* ========================================================== reaction roles

\* role-menu messages created
MaxMenus == 2

\* self.bot.user.id; the members who react are the users 1 and 2
BotUser == 3

\* payload.emoji: a PartialEmoji with its name, its id ("none" for a unicode
\* emoji) and whether it is animated
PartialEmojis ==
    { [name |-> <<"G">>, id |-> "none", animated |-> FALSE],
      [name |-> <<"M">>, id |-> "none", animated |-> FALSE],
      [name |-> <<"c", "a", "t">>, id |-> "7", animated |-> FALSE],
      [name |-> <<"c", "a", "t">>, id |-> "7", animated |-> TRUE] }

\* what _parse_mappings returns for the mappings argument of /rolemenu: no
\* pair; one emoji given twice, with two roles, and a custom emoji; one pair
MenuPairs ==
    { << >>,
      << [emoji |-> <<"G">>, role_id |-> 10],
         [emoji |-> <<"G">>, role_id |-> 20],
         [emoji |-> <<"<", ":", "c", "a", "t", ":", "7", ">">>, role_id |-> 20] >>,
      << [emoji |-> <<"M">>, role_id |-> 20] >> }

\* RawReactionActionEvent: guild_id is None in a DM, member is set on some add
\* events only.  User 1 reacts with every emoji, in the guild and in a DM;
\* user 2 and the bot itself react with one emoji on the first message, in the
\* guild; the custom emojis appear in add events
Payloads ==
    {e \in [user : {1, 2, BotUser}, guild : {1, NoGuild}, message : 1..MaxMenus,
            emoji : PartialEmojis, add : BOOLEAN, member : BOOLEAN] :
        /\ e.member => e.add /\ e.guild # NoGuild /\ e.emoji.name = <<"G">>
        /\ e.user # 1 => e.guild = 1 /\ e.emoji.name = <<"M">> /\ e.message = 1
        /\ e.guild = NoGuild => e.emoji.name = <<"G">> /\ e.message = 1
        /\ e.emoji.id # "none" => e.add}

\* _emoji_key of a PartialEmoji: <:name:id> or <a:name:id> for a custom emoji,
\* the name for a unicode emoji
EmojiKey(emoji) ==
    IF emoji.id # "none"
    THEN <<"<">> \o (IF emoji.animated THEN <<"a">> ELSE << >>) \o <<":">>
         \o emoji.name \o <<":", emoji.id, ">">>
    ELSE emoji.name

\* get_role_menu_by_message: SELECT ... WHERE message_id = ?
GetRoleMenuByMessage(table, message) ==
    SelectSeq(table, LAMBDA r : r.message_id = message)

\* delete_role_menu: DELETE FROM role_menus WHERE message_id = ?
DeleteRoleMenu(table, message) ==
    SelectSeq(table, LAMBDA r : r.message_id # message)

\* a loop without `break`: the role_id of the last matching mapping
FindRoleLast(mappings, key) ==
    LET hits == {i \in DOMAIN mappings : mappings[i].emoji = key}
    IN  IF hits = {} THEN 0
        ELSE mappings[CHOOSE i \in hits : \A j \in hits : j <= i].role_id

\* the loop of _handle_reaction over mappings: the role_id of the first
\* mapping whose emoji == key, 0 for None
FindRole(mappings, key) ==
    LET hits == {i \in DOMAIN mappings : mappings[i].emoji = key}
    IN  IF hits = {} THEN 0
        ELSE mappings[CHOOSE i \in hits : \A j \in hits : i <= j].role_id

\* no reaction handler has just ended
NoneReacted == \A q \in Procs : reactions[q].pc # "ended"

\* /rolemenu: without pairs an error; else the menu message is sent and
\* add_role_menu inserts one row per pair, in the order of the pairs
RoleMenu(pairs, send) ==
    /\ NoneReacted
    /\ menus < MaxMenus
    /\ IF pairs = << >> \/ send # "ok"
       THEN UNCHANGED <<role_menus, menus>>
       ELSE /\ menus' = menus + 1
            /\ role_menus' = role_menus \o
                  [i \in DOMAIN pairs |->
                      [guild_id |-> 1, message_id |-> menus + 1,
                       emoji |-> pairs[i].emoji, role_id |-> pairs[i].role_id]]
    /\ UNCHANGED <<pipeline, checks, moderating, ticketing, welcoming, member_roles,
                   reactions>>

\* /delrolemenu: a message_id that is no number, or has no mappings, is
\* answered with an error; else delete_role_menu
DelRoleMenu(message, numeric) ==
    /\ NoneReacted
    /\ role_menus' =
          IF numeric /\ GetRoleMenuByMessage(role_menus, message) # << >>
          THEN DeleteRoleMenu(role_menus, message)
          ELSE role_menus
    /\ UNCHANGED <<pipeline, checks, moderating, ticketing, welcoming, menus,
                   member_roles, reactions>>

\* _handle_reaction up to the lookup of the role: the bot's own reactions and
\* DMs are ignored, then the mappings of the message are read and searched
ReactionEvent(p, payload) ==
    /\ NoneReacted
    /\ reactions[p].pc = "idle"
    /\ LET mappings == IF payload.user = BotUser \/ payload.guild = NoGuild
                       THEN << >>
                       ELSE GetRoleMenuByMessage(role_menus, payload.message)
           role_id == IF mappings = << >> THEN 0
                      ELSE FindRole(mappings, EmojiKey(payload.emoji))
       IN  reactions' = [reactions EXCEPT ![p] =
              [pc |-> IF role_id = 0 THEN "ended" ELSE "found", payload |-> payload,
               mappings |-> mappings, role_id |-> role_id, changed |-> FALSE]]
    /\ UNCHANGED <<pipeline, checks, moderating, ticketing, welcoming, role_menus, menus,
                   member_roles>>

\* the rest of _handle_reaction: get_guild, the member of the payload or
\* fetch_member, get_role, and add_roles or remove_roles, whose Forbidden and
\* HTTPException are logged
ReactionApply(p, guild, fetch, role, res) ==
    /\ NoneReacted
    /\ reactions[p].pc = "found"
    /\ LET r == reactions[p]
           member == (r.payload.add /\ r.payload.member) \/ fetch = "ok"
           changed == guild /\ member /\ role /\ res = "ok"
       IN  /\ member_roles' =
                 IF ~changed THEN member_roles
                 ELSE [member_roles EXCEPT ![r.payload.user] =
                          IF r.payload.add THEN @ \cup {r.role_id} ELSE @ \ {r.role_id}]
           /\ reactions' = [reactions EXCEPT ![p].pc = "ended", ![p].changed = changed]
    /\ UNCHANGED <<pipeline, checks, moderating, ticketing, welcoming, role_menus, menus>>

\* the handler has returned
ReactionReturn(p) ==
    /\ reactions[p].pc = "ended"
    /\ reactions' = [reactions EXCEPT ![p] = NoReaction]
    /\ UNCHANGED <<pipeline, checks, moderating, ticketing, welcoming, role_menus, menus,
                   member_roles>>

\* reaction events and the two commands are tasks of their own
RolesNext ==
    \/ \E pairs \in MenuPairs, send \in Results : RoleMenu(pairs, send)
    \/ \E message \in 1..MaxMenus, numeric \in BOOLEAN : DelRoleMenu(message, numeric)
    \/ \E p \in Procs, payload \in Payloads : ReactionEvent(p, payload)
    \/ \E p \in Procs, guild \in BOOLEAN, fetch \in {"NotFound"} \cup Results,
          role \in BOOLEAN, res \in Results : ReactionApply(p, guild, fetch, role, res)
    \/ \E p \in Procs : ReactionReturn(p)

RolesSpec == CogInit /\ [][RolesNext]_vars

\* ================================================================ claims

\* ---- the claims' own reading of the inputs, apart from the model's

\* the author is a bot, the message is a direct message, or the author holds a
\* moderation permission
ClaimExempt(m) ==
    m.bot \/ m.guild = NoGuild \/ m.perms \cap PermNames # {}

\* word occurs in content, letter case aside
ClaimOccurs(word, content) ==
    \E k \in 0..(Len(content) - Len(word)) :
        \A j \in 1..Len(word) : LowerChar(content[k + j]) = LowerChar(word[j])

\* some configured filter word occurs in content
ClaimFiltered(content) ==
    \E i \in DOMAIN config.word_filter : ClaimOccurs(config.word_filter[i], content)

\* an on_message call has just run
Decided == last.action # "none"

\* the call that has just run was the spam check of a non-exempt, unfiltered message
SpamChecked ==
    Decided /\ ~ClaimExempt(last.msg) /\ ~ClaimFiltered(last.msg.content)

LastKey == <<last.msg.guild, last.msg.author>>

\* the messages of the key of the last message, recorded since the key's last
\* reset, that lie in the window and have exactly the last message's content
InWindowIdentical ==
    {i \in DOMAIN history[LastKey] :
        /\ history[LastKey][i].c = last.msg.content
        /\ history[LastKey][i].t >= last.now - config.spam_interval}

\* a is b with some elements left out, the others in b's order
RECURSIVE IsSubsequence(_, _)
IsSubsequence(a, b) ==
    IF a = << >> THEN TRUE
    ELSE IF b = << >> THEN FALSE
    ELSE IF Head(a) = Head(b) THEN IsSubsequence(Tail(a), Tail(b))
    ELSE IsSubsequence(a, Tail(b))

\* how often the pair e is in messages
Copies(messages, e) == Cardinality({i \in DOMAIN messages : messages[i] = e})

\* C1: with spam_threshold = N and spam_interval = W, the spam check of a
\* message fires the spam action exactly when the author's key holds N or more
\* messages of that content inside the last W seconds since the key's last
\* reset, the one handled included: the N-th identical message fires, and after
\* a reset no message fires before N messages have been recorded again.
C1_SpamFiresOnNthIdentical ==
    SpamChecked =>
        /\ (last.action = "Spam") = (Cardinality(InWindowIdentical) >= config.spam_threshold)
        /\ last.action = "Spam" => Len(history[LastKey]) >= config.spam_threshold
        /\ last.action \in {"Spam", "None"}

\* the N-th identical message in the window fires, older messages of the key
\* having left the window
C1_Witness ==
    /\ SpamChecked
    /\ last.action = "Spam"
    /\ Cardinality(InWindowIdentical) = config.spam_threshold
    /\ Len(history[LastKey]) > config.spam_threshold

\* C4: after prune(cutoff) on a record filled by adds with non-decreasing
\* timestamps, every remaining pair has timestamp >= cutoff, every pair that had
\* timestamp >= cutoff is still there as often as before, and the remaining
\* pairs are in their old order.
C4_PruneKeepsWindow ==
    rec.op = "prune" =>
        /\ \A i \in DOMAIN rec.messages : rec.messages[i].t >= rec.cutoff
        /\ \A i \in DOMAIN rec.before :
              rec.before[i].t >= rec.cutoff =>
                  Copies(rec.messages, rec.before[i]) = Copies(rec.before, rec.before[i])
        /\ IsSubsequence(rec.messages, rec.before)

\* a prune that drops a pair, keeps two, one of them stamped exactly cutoff
C4_Witness ==
    /\ rec.op = "prune"
    /\ Len(rec.messages) >= 2
    /\ Len(rec.messages) < Len(rec.before)
    /\ \E i \in DOMAIN rec.messages : rec.messages[i].t = rec.cutoff

\* C5: the count the spam check compares with the threshold is the number of
\* messages of the same key recorded since the key's last reset that are not
\* older than the interval and have exactly the content of the message handled
\* (letter case included), that message included.
C5_CountIsInWindowIdentical ==
    SpamChecked => last.count = Cardinality(InWindowIdentical)

\* a count that leaves out a message too old and one that differs in case only
C5_Witness ==
    /\ SpamChecked
    /\ last.count >= 1
    /\ \E i \in DOMAIN history[LastKey] :
          history[LastKey][i].t < last.now - config.spam_interval
    /\ \E i \in DOMAIN history[LastKey] :
          /\ history[LastKey][i].c # last.msg.content
          /\ Lower(history[LastKey][i].c) = Lower(last.msg.content)
          /\ history[LastKey][i].t >= last.now - config.spam_interval

\* the record of key k, and whether the tracker has one
Entry(tracker, k) ==
    IF k \in DOMAIN tracker THEN <<TRUE, tracker[k]>> ELSE <<FALSE, << >>>>

\* how many pairs of messages hold exactly content
Holding(messages, content) ==
    Cardinality({i \in DOMAIN messages : messages[i].c = content})

\* C2: on_message for a bot's message, a direct message or a moderator's
\* message takes no moderation action (no task is left awaiting a delete, purge,
\* timeout or notice, nothing is raised) and leaves the spam tracker as it was:
\* no key created, no pair appended.
C2_ExemptLeavesNoTrace ==
    (Decided /\ ClaimExempt(last.msg)) =>
        /\ last.action = "None"
        /\ spam_tracker = last.before
        /\ AllIdle
        /\ done.ended /\ done.op = "none" /\ done.raised = "none"

\* a moderator repeats a content that their key already holds threshold - 1 times
C2_Witness ==
    /\ Decided
    /\ "manage_messages" \in last.msg.perms
    /\ LastKey \in DOMAIN spam_tracker
    /\ Holding(spam_tracker[LastKey], last.msg.content) >= config.spam_threshold - 1
    /\ Holding(spam_tracker[LastKey], last.msg.content) >= 1

\* C3 at the decision: a non-exempt message containing a filter word gets the
\* word-filter action, its handler awaits message.delete() and nothing else,
\* and the tracker is as before the message (no prune, no record, no reset)
C3_AtDecision ==
    (Decided /\ ~ClaimExempt(last.msg) /\ ClaimFiltered(last.msg.content)) =>
        /\ last.action = "WordFilter"
        /\ spam_tracker = last.before
        /\ \E p \in Procs : tasks[p].pc = "wf_delete"
        /\ \A p \in Procs : tasks[p].pc \in {"idle", "wf_delete"}

\* C3 afterwards: a step of a word-filter handler completes a delete or a
\* notice, never a purge or a timeout, and leaves the tracker alone
C3_Afterwards ==
    \A p \in Procs :
        (tasks[p].pc \in {"wf_delete", "wf_send"} /\ tasks'[p] # tasks[p]) =>
            /\ spam_tracker' = spam_tracker
            /\ done'.op \in {"delete", "send"}
            /\ tasks'[p].pc \in {"wf_send", "idle"}

\* C3: a non-exempt message that contains a filter word produces only the
\* word-filter action: spam detection is not run for it, the tracker is left
\* exactly as it was, and no purge or timeout is issued.
C3_FilterMatchSkipsSpamCheck == []C3_AtDecision /\ [][C3_Afterwards]_vars

\* a filtered message of an author whose record holds threshold - 1 pairs, one
\* of them older than the interval, which a spam check would have pruned
C3_Witness ==
    /\ last.action = "WordFilter"
    /\ LastKey \in DOMAIN spam_tracker
    /\ Len(spam_tracker[LastKey]) = config.spam_threshold - 1
    /\ \E i \in DOMAIN spam_tracker[LastKey] :
          spam_tracker[LastKey][i].t < last.now - config.spam_interval

\* C6: once the handling of a message that fired the spam action has ended,
\* however its purge, timeout and notice went, the tracker holds nothing for
\* the key of that message.
C6_NoHistoryAfterSpamAction ==
    (done.action = "Spam" /\ done.ended) =>
        <<done.guild, done.author>> \notin DOMAIN spam_tracker

\* C7: in a spam action a failed purge is followed by the timeout attempt, a
\* failed timeout by the notice, and no failure of a side effect leaves the
\* message handler as an exception.
C7_SideEffectsBestEffort ==
    done.action = "Spam" =>
        /\ (done.op = "purge" /\ done.res # "ok") => done.then = <<"timeout">>
        /\ (done.op = "timeout" /\ done.res # "ok") => done.then = <<"send">>
        /\ done.raised = "none"

\* C8: on a word-filter match the message is deleted first; a failed delete
\* stays in the handler, which ends without a notice; after a successful
\* delete one notice is sent and its removal is scheduled 5 seconds later.
C8_WordFilterDeleteThenNotice ==
    done.action = "WordFilter" =>
        /\ done.op \in {"delete", "send"}
        /\ (done.op = "delete" /\ done.res # "ok") =>
              done.raised = "none" /\ done.ended /\ done.then = << >>
        /\ (done.op = "delete" /\ done.res = "ok") =>
              done.then = <<"send">> /\ ~done.ended
        /\ (done.op = "send" /\ done.res = "ok") =>
              done.then = <<"delete_later">> /\ done.arg = 5 /\ done.ended

\* the first configured word that occurs in content
ClaimFirstWord(content) ==
    config.word_filter[
        CHOOSE i \in DOMAIN config.word_filter :
            /\ ClaimOccurs(config.word_filter[i], content)
            /\ \A j \in 1..(i - 1) : ~ClaimOccurs(config.word_filter[j], content)]

\* C9: a non-exempt message gets the word-filter action exactly when some
\* configured word occurs in its content, letter case aside; the word reported
\* is the first such word of the list; with an empty list no message gets it.
C9_WordFilterMatch ==
    (Decided /\ ~ClaimExempt(last.msg)) =>
        /\ (last.action = "WordFilter") = ClaimFiltered(last.msg.content)
        /\ last.action = "WordFilter" => last.word = ClaimFirstWord(last.msg.content)
        /\ config.word_filter = << >> => last.action # "WordFilter"

\* a content in which two configured words occur, neither in the case it is
\* configured in, reported with the first
C9_Witness ==
    /\ last.action = "WordFilter"
    /\ Cardinality({i \in DOMAIN config.word_filter :
            ClaimOccurs(config.word_filter[i], last.msg.content)}) = 2
    /\ \A i \in DOMAIN config.word_filter : ~Contains(config.word_filter[i], last.msg.content)
    /\ last.word = config.word_filter[1]

\* C10 at the count: the count of a spam check never exceeds what the key's
\* own messages since its last reset can give
C10_OwnCount == SpamChecked => last.count <= Len(history[LastKey])

\* C10 at a step: a tracker record that is created, changed or removed is the
\* record of the key of the message handled in that step
C10_OwnRecord ==
    \A k \in Keys :
        Entry(spam_tracker', k) # Entry(spam_tracker, k) =>
            \/ last'.action # "none" /\ k = <<last'.msg.guild, last'.msg.author>>
            \/ done'.op # "none" /\ k = <<done'.guild, done'.author>>

\* C10: spam history is kept per (guild id, author id): handling a message of
\* one key never adds to, prunes or resets the record of another key, and the
\* messages of other keys never count toward a key's threshold.
C10_KeysIsolated == []C10_OwnCount /\ [][C10_OwnRecord]_vars

\* author 1 writes in guild 1 what the same author wrote in guild 2 and author 2
\* wrote in guild 1: together they reach the threshold, no key does
C10_Witness ==
    /\ SpamChecked
    /\ last.action = "None"
    /\ LastKey = <<1, 1>>
    /\ last.count = 1
    /\ \A k \in {<<2, 1>>, <<1, 2>>} :
          k \in DOMAIN spam_tracker /\ Holding(spam_tracker[k], last.msg.content) >= 1
    /\ config.spam_threshold <= 3

\* ---- C11, C12, C18: the claims' own reading of a duration string

\* the unit letters, in either case
ClaimUnits == {"s", "m", "h", "d", "S", "M", "H", "D"}

\* the seconds in one unit
ClaimUnitSeconds(ch) ==
    CASE ch \in {"s", "S"} -> 1
      [] ch \in {"m", "M"} -> 60
      [] ch \in {"h", "H"} -> 3600
      [] ch \in {"d", "D"} -> 86400

\* after trimming: decimal digits, optional whitespace, one unit letter
ClaimWellFormed(raw) ==
    LET s == Strip(raw)
    IN  \E n \in 1..(Len(s) - 1) :
            /\ \A i \in 1..n : s[i] \in Digits
            /\ \A i \in (n + 1)..(Len(s) - 1) : s[i] = " "
            /\ s[Len(s)] \in ClaimUnits

\* the number a well-formed string starts with
ClaimValue(raw) ==
    LET s == Strip(raw)
    IN  ParseInt(SelectSeq(s, LAMBDA ch : ch \in Digits))

\* the unit letter a well-formed string ends with
ClaimUnit(raw) == Strip(raw)[Len(Strip(raw))]

\* value x unit of a well-formed string is the duration delta
ClaimIsValueTimesUnit(raw, delta) ==
    LET perDay == 86400 \div ClaimUnitSeconds(ClaimUnit(raw))
    IN  /\ delta.kind = "timedelta"
        /\ delta.seconds % ClaimUnitSeconds(ClaimUnit(raw)) = 0
        /\ delta.seconds < 86400
        /\ delta.days * perDay + delta.seconds \div ClaimUnitSeconds(ClaimUnit(raw))
             = ClaimValue(raw)

\* value x unit of a well-formed string is more than 28 days
ClaimOver28Days(raw) ==
    ClaimValue(raw) > 28 * (86400 \div ClaimUnitSeconds(ClaimUnit(raw)))

\* the calls of the last command with one of the ops
CallsOf(ops) == {i \in DOMAIN cmd.calls : cmd.calls[i].op \in ops}

\* the last command answered with one ephemeral error response titled title,
\* and made no other call
OnlyErrorResponse(title) ==
    /\ Len(cmd.calls) = 1
    /\ cmd.calls[1].op = "respond"
    /\ cmd.calls[1].arg = title
    /\ cmd.calls[1].ephemeral

\* ---- C11

\* C11: when the bot's top role is not strictly above the target's top role,
\* /kick, /ban and /mute perform no kick, ban or timeout, send no DM and no
\* mod-log entry, and answer with exactly one ephemeral "Cannot ..." error
\* response
C11_HierarchyRefusal ==
    (cmd # NoCommand /\ ~(cmd.me_top > cmd.target_top)) =>
        /\ CallsOf({"kick", "ban", "timeout", "dm", "mod_log"}) = {}
        /\ OnlyErrorResponse(CASE cmd.name = "kick" -> "Cannot Kick"
                               [] cmd.name = "ban" -> "Cannot Ban"
                               [] cmd.name = "mute" -> "Cannot Mute")

\* each of the three commands can be refused for a target whose top role
\* equals the bot's; here it is /ban
C11_Witness ==
    /\ cmd.name = "ban"
    /\ cmd.me_top = cmd.target_top
    /\ OnlyErrorResponse("Cannot Ban")

\* ---- C12

\* C12: /mute calls member.timeout if and only if the hierarchy check passes,
\* the duration string parses and the parsed duration is at most 28 days; it
\* is then called once, with the parsed duration; an unparsable string gives
\* an "Invalid Duration" error and a longer duration a "Duration Too Long"
\* error, each with no timeout and no mod-log entry
C12_MuteTimeout ==
    cmd.name = "mute" =>
        IF ~(cmd.me_top > cmd.target_top)
        THEN CallsOf({"timeout"}) = {}
        ELSE IF ~ClaimWellFormed(cmd.duration)
        THEN OnlyErrorResponse("Invalid Duration")
        ELSE IF ClaimOver28Days(cmd.duration)
        THEN OnlyErrorResponse("Duration Too Long")
        ELSE /\ Cardinality(CallsOf({"timeout"})) = 1
             /\ \A i \in CallsOf({"timeout"}) :
                    ClaimIsValueTimesUnit(cmd.duration, cmd.calls[i].arg)

\* ---- C18

\* C18: _parse_duration returns value x unit for an input that after trimming
\* is a non-negative decimal integer, optional whitespace and one unit letter
\* s, m, h or d in either case, and None for every other input
C18_ParseDuration ==
    parsed.called =>
        IF ClaimWellFormed(parsed.raw)
        THEN ClaimIsValueTimesUnit(parsed.raw, parsed.result)
        ELSE parsed.result = None

\* ---- C13

\* the rows of (guild, user) in the warnings table, counted one by one
RECURSIVE ClaimRows(_, _, _)
ClaimRows(table, guild, user) ==
    IF table = << >> THEN 0
    ELSE ClaimRows(Tail(table), guild, user)
         + (IF Head(table) = [guild_id |-> guild, user_id |-> user] THEN 1 ELSE 0)

\* a step that changes the warnings table is the insert of one /warn, and it
\* appends one row, for that call's guild and target
C13_OneRow ==
    warnings' # warnings =>
        \E p \in Procs :
            /\ warns[p].pc = "idle" /\ warns'[p].pc = "added"
            /\ \A q \in Procs \ {p} : warns'[q] = warns[q]
            /\ warnings' = Append(warnings, [guild_id |-> warns'[p].guild,
                                             user_id |-> warns'[p].user])
            /\ \A k \in Keys :
                 ClaimRows(warnings', k[1], k[2]) =
                   ClaimRows(warnings, k[1], k[2])
                   + (IF k = <<warns'[p].guild, warns'[p].user>> THEN 1 ELSE 0)

\* the total of a /warn is the number of rows stored for its pair when it is
\* counted
C13_TotalWhenCounted ==
    \A p \in Procs :
        (warns[p].pc = "added" /\ warns'[p].pc = "counted") =>
            warns'[p].total = ClaimRows(warnings, warns[p].guild, warns[p].user)

\* the total covers the call's own row
C13_TotalAtLeast ==
    \A p \in Procs :
        warns[p].pc \in {"counted", "responded"} =>
            warns[p].total >= warns[p].previous + 1

\* get_warning_count equals the length of get_warnings
C13_CountIsLength ==
    \A k \in Keys :
        GetWarningCount(warnings, k[1], k[2]) =
            Len(GetWarnings(warnings, k[1], k[2]))

\* C13, amended: every /warn adds exactly one warning row, for (guild,
\* target), and none for any other pair; the total in the response is the
\* number of warnings stored for the pair when it is counted, which is at
\* least the previous count + 1; get_warning_count always equals the length of
\* get_warnings for the same pair
C13_WarnAddsOneRow ==
    /\ [](C13_TotalAtLeast /\ C13_CountIsLength)
    /\ [][C13_OneRow /\ C13_TotalWhenCounted]_vars

\* C13 as stated: the total in the response is the previous count + 1
C13_TotalIsPreviousPlusOne ==
    \A p \in Procs :
        warns[p].pc = "responded" => warns[p].total = warns[p].previous + 1

\* a second warning of a member who is also warned in another guild has been
\* answered with total 2
C13_Witness ==
    \E p \in Procs :
        /\ warns[p].pc = "responded"
        /\ warns[p].previous = 1 /\ warns[p].total = 2
        /\ \E i \in DOMAIN warnings :
               /\ warnings[i].user_id = warns[p].user
               /\ warnings[i].guild_id # warns[p].guild

\* ---- C14

\* (guild, user) has a ticket with status 'open'
ClaimHasOpenTicket(guild, user) ==
    \E i \in DOMAIN tickets :
        /\ tickets[i].guild_id = guild /\ tickets[i].user_id = user
        /\ tickets[i].status = "open"

\* the task made one call, an ephemeral "Ticket Already Open" response
ClaimToldAlreadyOpen(t) ==
    /\ Len(t.calls) = 1
    /\ t.calls[1].op = "respond" /\ t.calls[1].arg = "Ticket Already Open"
    /\ t.calls[1].ephemeral

\* a ticket creation that starts while its user has an open ticket in the
\* guild answers "Ticket Already Open" and ends; no channel, no row
C14_Refuses ==
    \A p \in Procs :
        ( /\ openers[p].pc = "idle" /\ openers'[p].pc # "idle"
          /\ ClaimHasOpenTicket(openers'[p].guild, openers'[p].user) ) =>
            /\ openers'[p].pc = "answered"
            /\ ClaimToldAlreadyOpen(openers'[p])
            /\ tickets' = tickets /\ channels' = channels

\* a ticket creation that has answered does nothing more
C14_Ended ==
    \A p \in Procs :
        (openers[p].pc = "answered" /\ openers'[p] # openers[p]) =>
            /\ openers'[p] = IdleOpener
            /\ tickets' = tickets /\ channels' = channels

\* C14: when the requesting user already has a ticket with status 'open' in
\* the guild, ticket creation creates no channel, inserts no ticket row and
\* answers with exactly one ephemeral "Ticket Already Open" error
C14_AlreadyOpen == [][C14_Refuses /\ C14_Ended]_vars

\* a user with a closed ticket and a newer open one was refused a third
C14_Witness ==
    \E p \in Procs :
        /\ openers[p].pc = "answered" /\ ClaimToldAlreadyOpen(openers[p])
        /\ ClaimHasOpenTicket(openers[p].guild, openers[p].user)
        /\ \E i \in DOMAIN tickets :
               /\ tickets[i].guild_id = openers[p].guild
               /\ tickets[i].user_id = openers[p].user
               /\ tickets[i].status = "closed"

\* ---- C15

\* once close_ticket(channel) has run, the ticket of the channel is closed
\* and get_open_ticket does not return it
C15_Closed ==
    \A channel \in closers :
        /\ \A i \in DOMAIN tickets :
               tickets[i].channel_id = channel => tickets[i].status = "closed"
        /\ \A k \in Keys : GetOpenTicket(tickets, k[1], k[2]).channel_id # channel

\* close_ticket is idempotent
C15_Idempotent ==
    \A channel \in 0..MaxTickets :
        CloseTicket(CloseTicket(tickets, channel), channel)
            = CloseTicket(tickets, channel)

\* no row disappears, and a row changes only in its status, from 'open' to
\* 'closed'
C15_OneWay ==
    \A i \in DOMAIN tickets :
        /\ i \in DOMAIN tickets'
        /\ \/ tickets'[i] = tickets[i]
           \/ /\ tickets[i].status = "open"
              /\ tickets'[i] = [tickets[i] EXCEPT !.status = "closed"]

\* close_ticket(channel) changes no ticket of any other channel
C15_OthersKept ==
    \A channel \in closers' \ closers :
        /\ DOMAIN tickets' = DOMAIN tickets
        /\ \A i \in DOMAIN tickets :
               tickets[i].channel_id # channel => tickets'[i] = tickets[i]

\* C15: after close_ticket(channel_id) the ticket of that channel has status
\* 'closed' and is no longer returned by get_open_ticket; a status only moves
\* from 'open' to 'closed' and never back; close_ticket is idempotent and
\* changes no ticket of any other channel
C15_CloseTicket ==
    /\ [](C15_Closed /\ C15_Idempotent)
    /\ [][C15_OneWay /\ C15_OthersKept]_vars

\* close_ticket has closed the ticket of one channel while the same user has
\* an open ticket in another channel
C15_Witness ==
    \E channel \in closers, i \in DOMAIN tickets, j \in DOMAIN tickets :
        /\ tickets[i].channel_id = channel /\ tickets[i].status = "closed"
        /\ tickets[j].user_id = tickets[i].user_id
        /\ tickets[j].status = "open"

\* ---- C16, C17: the claims' own reading of config.json

\* the value a JSON reader gives key in file, or default when the object has
\* no such member
ClaimLookup(file, key, default) ==
    LET at == {i \in DOMAIN file : file[i][1] = key}
    IN  IF at = {} THEN default
        ELSE file[CHOOSE i \in at : \A j \in at : j <= i][2]

\* the keys of the model's configuration files
ClaimKeys == {"welcome_channel", "auto_role", "mod_log_channel", "ticket_category"}

\* the calls of the last Welcome handler with the op
SeenCalls(op) == {i \in DOMAIN seen.calls : seen.calls[i].op = op}

\* ---- C16

\* C16: on member join, a missing welcome channel or a permission failure
\* (discord.Forbidden) when sending the welcome message does not prevent the
\* auto-role from being assigned; when the configured auto_role is empty or
\* names no existing role, no role is added
C16_WelcomeAndAutoRole ==
    seen.handler = "on_member_join" =>
        LET channel == ClaimLookup(seen.before, "welcome_channel", "welcome")
            role == ClaimLookup(seen.before, "auto_role", "")
            named == role # "" /\ role \in seen.roles
            unwelcomed ==
                \/ channel \notin seen.channels
                \/ \E i \in SeenCalls("send") : seen.calls[i].res = "Forbidden"
        IN  /\ (unwelcomed /\ named) =>
                /\ Cardinality(SeenCalls("add_roles")) = 1
                /\ \A i \in SeenCalls("add_roles") : seen.calls[i].arg = role
            /\ ~named => SeenCalls("add_roles") = {}

\* the welcome message was refused with discord.Forbidden and the auto-role
\* was then assigned
C16_Witness ==
    /\ seen.handler = "on_member_join"
    /\ \E i \in SeenCalls("send"), j \in SeenCalls("add_roles") :
           /\ seen.calls[i].res = "Forbidden"
           /\ i < j /\ seen.calls[j].res = "ok"

\* ---- C17

\* after /setwelcome or /setautorole the key holds the name, and every other
\* key has the value, or the absence, it had
C17_KeySetOthersKept ==
    seen.handler \in {"setwelcome", "setautorole"} =>
        LET key == IF seen.handler = "setwelcome"
                   THEN "welcome_channel" ELSE "auto_role"
        IN  /\ ClaimLookup(config_file, key, "<absent>") = seen.value
            /\ \A k \in ClaimKeys \ {key} :
                   ClaimLookup(config_file, k, "<absent>")
                       = ClaimLookup(seen.before, k, "<absent>")

\* each key holds the name of the last command that set it
C17_LastCommandWins ==
    \A key \in DOMAIN last_set :
        last_set[key] # "<unset>" =>
            ClaimLookup(config_file, key, "<absent>") = last_set[key]

\* C17: after /setwelcome(channel) welcome_channel equals the channel's name
\* and every other key keeps its value; likewise /setautorole(role) for
\* auto_role; after any sequence of the two commands each key holds the value
\* of the last command that set it
C17_SetWelcomeSetAutoRole == C17_KeySetOthersKept /\ C17_LastCommandWins

\* /setautorole has run after a /setwelcome on a file with a third key
C17_Witness ==
    /\ seen.handler = "setautorole"
    /\ last_set.welcome_channel # "<unset>"
    /\ ClaimLookup(seen.before, "auto_role", "<absent>") # seen.value
    /\ ClaimLookup(seen.before, "mod_log_channel", "<absent>") # "<absent>"

\* ---- C19

\* the tasks suspended in the spam side effects for the key
InFlight(key) ==
    {p \in Procs : tasks[p].pc # "idle" /\ <<tasks[p].guild, tasks[p].author>> = key}

\* C19: a message that arrives while the side effects of a spam action on its
\* author are in flight does not fire a second action on the same accumulated
\* history: the side effects and the reset run once for the burst
C19_NoSecondAction ==
    last.action = "Spam" => Cardinality(InFlight(LastKey)) <= 1

\* ---- C20

\* C20: the tracker reset never fails: whenever a handler executes the reset
\* of a (guild, author) key, the key has an entry in the tracker
C20_ResetNeverFails ==
    "reset" \in {done.then[i] : i \in DOMAIN done.then} => done.raised # "KeyError"

\* ---- C21: the spam check's prune, record and count as one piece

\* task p is between the first statement of its spam check and the comparison
InCheck(p) == checks[p].pc # "idle"

\* C21 at a step: while a task is inside its spam check no other handler runs,
\* so none reads or writes the entry of its key
C21_Alone ==
    \A p \in Procs :
        InCheck(p) =>
            \A q \in Procs \ {p} : checks'[q] = checks[q] /\ tasks'[q] = tasks[q]

\* C21 at a step: a check takes its key, prunes, records, and then counts
C21_Order ==
    \A p \in Procs :
        checks'[p].pc # checks[p].pc =>
            <<checks[p].pc, checks'[p].pc>> \in
                {<<"idle", "keyed">>, <<"keyed", "pruned">>, <<"pruned", "recorded">>,
                 <<"recorded", "idle">>}

\* C21 at the comparison: the entry is the entry the check found, without the
\* pairs older than the window, followed by the new pair, and the count compared
\* is the number of pairs of that entry with the content of the message
C21_AtComparison ==
    SpamChecked =>
        LET found == IF LastKey \in DOMAIN last.before THEN last.before[LastKey] ELSE << >>
            kept == SelectSeq(found, LAMBDA e : e.t >= last.now - config.spam_interval)
            new == [c |-> last.msg.content, t |-> last.now]
        IN  /\ LastKey \in DOMAIN spam_tracker
            /\ spam_tracker[LastKey] = kept \o <<new>>
            /\ last.count = Holding(kept \o <<new>>, new.c)

\* C21: within one spam check prune, record and count of a key run in that order
\* and as one piece with respect to every other message handler: no other
\* handler reads or writes the key's entry between the prune and the
\* comparison, and the new pair is not removed by the prune of its own check.
C21_CheckIsAtomic == []C21_AtComparison /\ [][C21_Alone /\ C21_Order]_vars

\* a check has recorded its message and not yet counted, while the handler of
\* an earlier message of the same author is suspended in its spam action
C21_Witness ==
    \E p \in Procs, q \in Procs :
        /\ checks[p].pc = "recorded"
        /\ tasks[q].pc \in {"purge", "timeout", "send"}
        /\ <<tasks[q].guild, tasks[q].author>> =
              <<checks[p].msg.guild, checks[p].msg.author>>

\* ---- C22: Clean, Accumulating, Triggered

\* C22: with messages handled one at a time, between two handlings every
\* tracker entry is Clean or Accumulating: for every key and every content the
\* entry holds fewer pairs of that content than the threshold; a count at or
\* above the threshold exists only while the handler that fires the spam action
\* runs, and is gone when it has ended.
C22_CleanOrAccumulating ==
    AllIdle =>
        \A k \in DOMAIN spam_tracker, c \in Contents :
            Holding(spam_tracker[k], c) < config.spam_threshold

\* ---- C23: a failed purge or timeout

\* a purge or a timeout of a spam action has just failed
ClaimEffectFailed ==
    done.action = "Spam" /\ done.op \in {"purge", "timeout"} /\ done.res # "ok"

\* C23, the failed call: it is not issued again, and when the handler has ended
\* the tracker holds nothing for the key
C23_NoRetryAndReset ==
    ClaimEffectFailed =>
        /\ \A i \in DOMAIN done.then : done.then[i] # done.op
        /\ done.ended => <<done.guild, done.author>> \notin DOMAIN spam_tracker

\* C23, the next action: a spam action fires on an entry that, before the
\* message, was below the threshold for that content, so the pairs that fired an
\* earlier action are not counted again
C23_FreshCycle ==
    (SpamChecked /\ last.action = "Spam") =>
        (LastKey \in DOMAIN last.before =>
            Holding(last.before[LastKey], last.msg.content) < config.spam_threshold)

\* C23, later messages: every later message that reaches the spam check is
\* recorded and counted
C23_StillChecked ==
    SpamChecked =>
        /\ LastKey \in DOMAIN spam_tracker
        /\ last.count = Holding(spam_tracker[LastKey], last.msg.content)
        /\ last.count >= 1

\* C23: a purge or timeout that fails during a spam action is not retried by
\* that handler, the tracker entry is still reset, and the next spam action for
\* the same author fires only after threshold new identical messages have
\* accumulated inside the window; the failure does not stop later messages of
\* any author from being checked.
C23_FailedEffect == C23_NoRetryAndReset /\ C23_FreshCycle /\ C23_StillChecked

\* ---- C24: the order of the steps of a spam action

\* the positions of a spam action: the call its task is suspended at
ClaimSpamCalls == {"purge", "timeout", "send"}

\* C24 at a step: the task of a spam action goes from the purge to the timeout,
\* from the timeout to the notice, and from the notice to its end; the call
\* that completes is the one the task was suspended at
C24_OneAfterTheOther ==
    \A p \in Procs :
        (tasks'[p].pc # tasks[p].pc /\ {tasks[p].pc, tasks'[p].pc} \cap ClaimSpamCalls # {}) =>
            /\ <<tasks[p].pc, tasks'[p].pc>> \in
                  {<<"idle", "purge">>, <<"purge", "timeout">>, <<"timeout", "send">>,
                   <<"send", "idle">>, <<"purge", "idle">>, <<"timeout", "idle">>}
            /\ tasks[p].pc # "idle" => done'.op = tasks[p].pc /\ done'.action = "Spam"
            /\ tasks[p].pc = "idle" => last'.action = "Spam"

\* C24 at a step: an entry leaves the tracker only in the step in which the
\* notice of its key has been sent and its removal scheduled
C24_ResetLast ==
    \A k \in Keys :
        (k \in DOMAIN spam_tracker /\ k \notin DOMAIN spam_tracker') =>
            /\ done'.action = "Spam" /\ done'.op = "send" /\ done'.res = "ok"
            /\ done'.then = <<"delete_later", "reset">>
            /\ k = <<done'.guild, done'.author>>

\* C24 at a completion: the purge is limited to threshold + 5 messages and to
\* those of the offending author, the timeout is of that author for 5 minutes,
\* the removal of the notice is scheduled 5 seconds later, before the reset
C24_Calls ==
    done.action = "Spam" =>
        /\ done.op \in ClaimSpamCalls
        /\ done.op = "purge" =>
              /\ done.arg = config.spam_threshold + 5
              /\ done.who = done.author
              /\ done.then \in {<<"timeout">>, << >>}
        /\ done.op = "timeout" =>
              /\ done.arg = 5
              /\ done.who = done.author
              /\ done.then \in {<<"send">>, << >>}
        /\ done.op = "send" =>
              /\ done.then \in {<<"delete_later", "reset">>, << >>}
              /\ done.res = "ok" => done.then # << >> /\ done.arg = 5

\* C24: when a spam action fires the handler issues its steps in this order,
\* each awaited before the next: purge of at most threshold + 5 recent channel
\* messages restricted to those of the offending author, timeout of the author
\* for 5 minutes, notice, scheduled removal of the notice after 5 seconds, and
\* only then the tracker reset.
C24_SpamActionOrder == []C24_Calls /\ [][C24_OneAfterTheOther /\ C24_ResetLast]_vars

\* a spam action has run to its end: the notice is sent, its removal scheduled
\* and the entry reset, while the other author of the guild keeps an entry
C24_Witness ==
    /\ done.action = "Spam" /\ done.op = "send" /\ done.res = "ok"
    /\ done.ended
    /\ <<done.guild, done.author>> \notin DOMAIN spam_tracker
    /\ \E k \in DOMAIN spam_tracker : k[1] = done.guild /\ k[2] # done.author

\* ---- C25: the order of a permitted /kick

\* the last command was a /kick that passed the hierarchy check
ClaimKickPermitted == cmd.name = "kick" /\ cmd.me_top > cmd.target_top

\* the calls of the last command are, in order, the first ones of steps
ClaimFirstOf(steps) ==
    /\ Len(cmd.calls) <= Len(steps)
    /\ \A i \in DOMAIN cmd.calls : cmd.calls[i].op = steps[i]

\* C25, the order: the DM is attempted first, the kick follows whatever became
\* of the DM, then the mod-log entry when its channel exists, then the response
C25_Order ==
    ClaimKickPermitted =>
        /\ Len(cmd.calls) >= 2
        /\ \/ ClaimFirstOf(<<"dm", "kick", "mod_log", "respond">>)
           \/ ClaimFirstOf(<<"dm", "kick", "respond">>)

\* the last call of the last command is the success response of /kick
ClaimKickSucceeded ==
    /\ Cardinality(CallsOf({"respond"})) = 1
    /\ cmd.calls[Len(cmd.calls)].op = "respond"
    /\ cmd.calls[Len(cmd.calls)].arg = "Member Kicked"
    /\ ~cmd.calls[Len(cmd.calls)].ephemeral

\* C25, the outcome when the kick goes through: at most one mod-log entry, and
\* the success response once the entry was sent or its channel is missing
C25_WhenKicked ==
    (ClaimKickPermitted /\ Len(cmd.calls) >= 2 /\ cmd.calls[2].res = "ok") =>
        /\ Cardinality(CallsOf({"mod_log"})) <= 1
        /\ (\A i \in CallsOf({"mod_log"}) : cmd.calls[i].res = "ok") => ClaimKickSucceeded

ClaimTicketClosed(channel) ==
    /\ \E i \in DOMAIN tickets : tickets[i].channel_id = channel
    /\ \A i \in DOMAIN tickets :
          tickets[i].channel_id = channel => tickets[i].status = "closed"

\* C26, the database first: while a Close Ticket handler has its closing
\* message still to send, and when it has gone through its calls, the ticket
\* of its channel is closed
C26_ClosedFirst ==
    /\ \A channel \in closers : ClaimTicketClosed(channel)
    /\ pressed # NoPress => ClaimTicketClosed(pressed.channel)

\* C26, the calls after close_ticket: the closing message, the wait of 5
\* seconds, the deletion of the channel, in this order
C26_MessageWaitDelete ==
    pressed # NoPress =>
        /\ Len(pressed.calls) \in 1..3
        /\ \A i \in DOMAIN pressed.calls :
              pressed.calls[i].op = <<"respond", "sleep", "delete">>[i]
        /\ pressed.calls[1].arg = "Ticket Closing"
        /\ Len(pressed.calls) >= 2 => pressed.calls[2].arg = 5
        /\ Len(pressed.calls) = 3 =>
              /\ pressed.calls[1].res = "ok"
              /\ pressed.calls[3].arg = pressed.channel

\* C26, a failed deletion: nothing is raised, and the ticket stays closed
C26_FailedDelete ==
    (pressed # NoPress /\ Len(pressed.calls) = 3 /\ pressed.calls[3].res # "ok") =>
        /\ pressed.raised = "none"
        /\ ClaimTicketClosed(pressed.channel)

\* C26 at a step: a ticket channel is deleted only by a Close Ticket handler
\* that closed its ticket before and has sent its message and waited
C26_DeletedLast ==
    \A channel \in channels.live \ channels'.live :
        /\ channel \in closers
        /\ ClaimTicketClosed(channel)
        /\ pressed'.channel = channel
        /\ Len(pressed'.calls) = 3
        /\ pressed'.calls[3].res = "ok"

\* C26: the Close Ticket button marks the ticket closed in the database before
\* it sends the closing message, and deletes the channel only after the closing
\* message and the 5-second wait; a failed channel deletion (Forbidden or HTTP
\* error) is logged, not raised, and leaves the ticket closed.
C26_CloseButton ==
    /\ [](C26_ClosedFirst /\ C26_MessageWaitDelete /\ C26_FailedDelete)
    /\ [][C26_DeletedLast]_vars

\* the closing message was sent and the deletion of the channel was refused
C26_Witness ==
    /\ pressed # NoPress
    /\ Len(pressed.calls) = 3
    /\ pressed.calls[3].res = "Forbidden"
    /\ pressed.channel \in channels.live

\* ---- C28: one open ticket per (guild, user)

\* C28: in every reachable state each (guild, user) pair has at most one
\* ticket with status 'open', also when two ticket-creation handlers of the
\* same user interleave at the awaits between the open-ticket check, the
\* channel creation and the row insert.
C28_OneOpenTicket ==
    \A k \in Members :
        Cardinality({i \in DOMAIN tickets :
            /\ tickets[i].guild_id = k[1]
            /\ tickets[i].user_id = k[2]
            /\ tickets[i].status = "open"}) <= 1

\* ---- C29: the ticket row and the responses of ticket creation

\* the positions of the interaction responses among the calls of task p
ClaimResponses(p) ==
    {i \in DOMAIN openers[p].calls : openers[p].calls[i].op = "respond"}

\* task p has ended on a missing category or a failed channel creation
ClaimNotCreated(p) ==
    /\ openers[p].pc = "answered"
    /\ \E i \in ClaimResponses(p) :
          openers[p].calls[i].arg \in
              {"Configuration Error", "Permission Error", "Channel Creation Failed"}

\* C29, the row: every ticket row is the row of a channel that was created
C29_RowAfterChannel ==
    \A i \in DOMAIN tickets : tickets[i].channel_id \in 1..channels.created

\* C29, the failures: a handler that ended on a missing category or a failed
\* channel creation called create_ticket not at all and answered with one
\* ephemeral error
C29_NotCreated ==
    \A p \in Procs :
        ClaimNotCreated(p) =>
            /\ \A i \in DOMAIN openers[p].calls : openers[p].calls[i].op # "create_ticket"
            /\ Cardinality(ClaimResponses(p)) = 1
            /\ \A i \in ClaimResponses(p) : openers[p].calls[i].ephemeral

\* C29, the failures at a step: the step that ends such a handler leaves the
\* tickets table as it was
C29_NoRow ==
    \A p \in Procs :
        (openers[p].pc # "answered" /\ ClaimNotCreated(p)') => tickets' = tickets

\* C29, every path: a handler that has ended has sent exactly one response
C29_OneResponse ==
    \A p \in Procs :
        openers[p].pc = "answered" => Cardinality(ClaimResponses(p)) = 1

\* C29: a ticket row is inserted only after its channel has been created: when
\* the ticket category is missing or the channel creation fails, no ticket row
\* is inserted, the user has no open ticket from the request, and exactly one
\* ephemeral error response is sent; every path through ticket creation sends
\* exactly one interaction response.
C29_TicketCreationPaths ==
    /\ [](C29_RowAfterChannel /\ C29_NotCreated /\ C29_OneResponse)
    /\ [][C29_NoRow]_vars

\* ---- C30: the entry after a spam check that does not fire

\* C30: with a monotonic clock, after every spam check of a key that does not
\* fire an action, the key's entry is non-empty, its timestamps are
\* non-decreasing in insertion order, and every stored timestamp lies in
\* [now - interval, now]: the entry holds no message older than the window at
\* the moment of counting.
C30_EntryInWindow ==
    (SpamChecked /\ last.action = "None") =>
        /\ LastKey \in DOMAIN spam_tracker
        /\ spam_tracker[LastKey] # << >>
        /\ \A i \in DOMAIN spam_tracker[LastKey], j \in DOMAIN spam_tracker[LastKey] :
              i < j => spam_tracker[LastKey][i].t <= spam_tracker[LastKey][j].t
        /\ \A i \in DOMAIN spam_tracker[LastKey] :
              /\ spam_tracker[LastKey][i].t >= last.now - config.spam_interval
              /\ spam_tracker[LastKey][i].t <= last.now

\* a check that does not fire leaves an entry of two pairs, the older one
\* stamped exactly now - interval, after a still older pair was pruned
C30_Witness ==
    /\ SpamChecked /\ last.action = "None"
    /\ LastKey \in DOMAIN spam_tracker
    /\ Len(spam_tracker[LastKey]) = 2
    /\ spam_tracker[LastKey][1].t = last.now - config.spam_interval
    /\ Len(history[LastKey]) > 2

\* ---- C27: reaction roles

\* the text of a stored emoji names the emoji of a reaction: the character of
\* a unicode emoji, <:name:id> of a custom one, <a:name:id> of an animated one
ClaimSameEmoji(stored, emoji) ==
    CASE emoji.id = "none" -> stored = emoji.name
      [] emoji.id # "none" /\ emoji.animated ->
            stored = <<"<", "a", ":">> \o emoji.name \o <<":", emoji.id, ">">>
      [] OTHER -> stored = <<"<", ":">> \o emoji.name \o <<":", emoji.id, ">">>

\* the positions of the rows of table that map the emoji of the reaction e on
\* the message of e
ClaimMapped(table, e) ==
    {i \in DOMAIN table :
        table[i].message_id = e.message /\ ClaimSameEmoji(table[i].emoji, e.emoji)}

\* the role of the first of those rows
ClaimRole(table, e) ==
    table[CHOOSE i \in ClaimMapped(table, e) : \A j \in ClaimMapped(table, e) : i <= j].role_id

\* C27 at the event: a reaction is taken up exactly when it is not the bot's
\* own, happens in a guild, and the message has a stored mapping of its emoji;
\* the handler then holds the role of the first such mapping.  No role changes
\* in this step.
C27_TakenUp ==
    \A p \in Procs :
        (reactions[p].pc = "idle" /\ reactions'[p].pc # "idle") =>
            LET e == reactions'[p].payload
            IN  /\ member_roles' = member_roles
                /\ (reactions'[p].pc = "found") =
                      (e.user # BotUser /\ e.guild # NoGuild /\ ClaimMapped(role_menus, e) # {})
                /\ reactions'[p].pc = "found" =>
                      reactions'[p].role_id = ClaimRole(role_menus, e)

\* C27 at a change: the roles of a member change only in the step of a
\* handler that took up a reaction of that member, and the change is the grant
\* of the handler's role for an add event, its revocation for a remove event
C27_Change ==
    \A u \in DOMAIN member_roles :
        member_roles'[u] # member_roles[u] =>
            \E p \in Procs :
                /\ reactions[p].pc = "found" /\ reactions'[p].pc = "ended"
                /\ reactions[p].payload.user = u
                /\ \A v \in DOMAIN member_roles \ {u} : member_roles'[v] = member_roles[v]
                /\ member_roles'[u] =
                      IF reactions[p].payload.add
                      THEN member_roles[u] \cup {reactions[p].role_id}
                      ELSE member_roles[u] \ {reactions[p].role_id}

\* C27 at a deletion: rows leave the table message by message
C27_Deleted ==
    \A m \in 1..MaxMenus :
        (\E i \in DOMAIN role_menus : role_menus[i].message_id = m
                                      /\ role_menus[i] \notin {role_menus'[j] : j \in DOMAIN role_menus'})
        => /\ \A j \in DOMAIN role_menus' : role_menus'[j].message_id # m
           /\ role_menus' = SelectSeq(role_menus, LAMBDA r : r.message_id # m)

\* C27: a reaction event changes a member's roles only when it is on a message
\* with stored role-menu mappings, its emoji equals a stored mapping's emoji,
\* it happens in a guild and is not the bot's own reaction; then an add event
\* grants exactly the mapped role (the first matching mapping) and a remove
\* event revokes exactly that role, and after the menu's mappings were deleted
\* no reaction on that message changes any role.
C27_ReactionRoles == [][C27_TakenUp /\ C27_Change /\ C27_Deleted]_vars

\* an add event with an emoji that the menu maps twice has granted the role of
\* the first mapping, not that of the second
C27_Witness ==
    \E p \in Procs :
        /\ reactions[p].pc = "ended" /\ reactions[p].changed
        /\ reactions[p].payload.add
        /\ Cardinality({i \in DOMAIN reactions[p].mappings :
              ClaimSameEmoji(reactions[p].mappings[i].emoji, reactions[p].payload.emoji)}) = 2
        /\ member_roles[reactions[p].payload.user] = {10}

====
